---------------------------- MODULE Spec2Model ----------------------------
(***************************************************************************)
(* A model of FinancialDataProcessor (src/data_processor.py): the monetary *)
(* value parser, the description classifiers and the normaliser            *)
(* process_dataframe.  Python strings are TLA+ strings; TLC evaluates Len, *)
(* SubSeq and \o on them, so the string code is modelled character by      *)
(* character.  A Python float is modelled as an exact decimal m * 10^(-d), *)
(* an infinity or NaN.                                                     *)
(***************************************************************************)
EXTENDS Integers, Sequences, FiniteSets, TLC

VARIABLES
    call,              \* the method last invoked on the processor, "" before any call
    arg,               \* the argument of that call
    ret,               \* its outcome: a returned value or a raised exception
    df_processed,      \* self.df_processed; in main, its local df_processed
    analysis_results,  \* self.analysis_results
    screen             \* what the application has shown with st.*, in order

vars == <<call, arg, ret, df_processed, analysis_results, screen>>

---------------------------------------------------------------------------
(* Bounds of the model.                                                    *)

\* longest amount string enumerated exhaustively over AmountAlphabet
MaxLen == 4

\* most words of a description enumerated exhaustively over Vocabulary
MaxWords == 3

\* most rows of an input dataset
MaxRows == 3

\* most rows of a filtered view of a statement
MaxViewRows == 6

---------------------------------------------------------------------------
(* Python values.                                                          *)

\* None / NaN / NaT as seen by pd.isna
NoneV == [t |-> "null"]

Str(s) == [t |-> "str", s |-> s]

\* a float: c = "fin" is the decimal m * 10^(-d), c = "inf" is m * infinity
\* (m = 1 or -1), c = "nan" is NaN
Flt(c, m, d) == [t |-> "float", c |-> c, m |-> m, d |-> d]

RECURSIVE Pow10(_)
Pow10(n) == IF n = 0 THEN 1 ELSE 10 * Pow10(n - 1)

\* the canonical form of the decimal m * 10^(-d): no trailing zero digit
RECURSIVE Fin(_, _)
Fin(m, d) ==
    IF d > 0 /\ m % 10 = 0 THEN Fin(m \div 10, d - 1) ELSE Flt("fin", m, d)

Zero == Fin(0, 0)
PosInf == Flt("inf", 1, 0)
NegInf == Flt("inf", -1, 0)
NaN == Flt("nan", 0, 0)

IsFinite(v) == v.t = "float" /\ v.c = "fin"

\* pd.isna(value)
IsNa(v) == v.t = "null" \/ (v.t = "float" /\ v.c = "nan")

\* unary minus on a float
FNeg(x) == IF x.c = "nan" THEN NaN ELSE Flt(x.c, -x.m, x.d)

Max(a, b) == IF a >= b THEN a ELSE b

Abs(n) == IF n < 0 THEN -n ELSE n

RECURSIVE GCD(_, _)
GCD(a, b) == IF b = 0 THEN a ELSE GCD(b, a % b)

\* whether q has no prime factor other than 2 and 5
RECURSIVE Only25(_)
Only25(q) ==
    IF q % 2 = 0 THEN Only25(q \div 2)
    ELSE IF q % 5 = 0 THEN Only25(q \div 5)
    ELSE q = 1

\* the least k from k0 on with q a divisor of 10^k
RECURSIVE Places(_, _)
Places(q, k0) == IF Pow10(k0) % q = 0 THEN k0 ELSE Places(q, k0 + 1)

\* the float n / q for q > 0, in canonical form: a decimal where the quotient
\* has one, else c = "rat", the fraction m / d in lowest terms
Quot(n, q) ==
    LET g == GCD(Abs(n), q)
        n1 == n \div g
        q1 == q \div g
    IN  IF Only25(q1)
        THEN LET k == Places(q1, 0) IN Fin(n1 * (Pow10(k) \div q1), k)
        ELSE Flt("rat", n1, q1)

\* numerator and denominator of a finite float
Num(x) == x.m
Den(x) == IF x.c = "rat" THEN x.d ELSE Pow10(x.d)

\* x + y on floats: inf + -inf and NaN give NaN.  The decimal sum is exact
\* where the binary sum is rounded; the sign of the sum, and whether it is
\* finite, infinite or NaN, are the same for the amounts of the model.
FAdd(x, y) ==
    IF x.c = "nan" \/ y.c = "nan" THEN NaN
    ELSE IF x.c = "inf" /\ y.c = "inf" THEN (IF x.m = y.m THEN x ELSE NaN)
    ELSE IF x.c = "inf" THEN x
    ELSE IF y.c = "inf" THEN y
    ELSE IF x.c = "fin" /\ y.c = "fin"
         THEN LET d == Max(x.d, y.d)
              IN  Fin(x.m * Pow10(d - x.d) + y.m * Pow10(d - y.d), d)
    ELSE LET l == Den(x) * (Den(y) \div GCD(Den(x), Den(y)))
         IN  Quot(Num(x) * (l \div Den(x)) + Num(y) * (l \div Den(y)), l)

\* x > 0 and x < 0 on floats (every comparison with NaN is False)
FPos(x) == x.c # "nan" /\ x.m > 0
FNegative(x) == x.c # "nan" /\ x.m < 0

\* x - y and abs(x)
FSub(x, y) == FAdd(x, FNeg(y))
FAbs(x) == IF x.c = "nan" THEN NaN ELSE Flt(x.c, Abs(x.m), x.d)

Sign(n) == IF n > 0 THEN 1 ELSE IF n < 0 THEN -1 ELSE 0

\* x * y on floats: 0 * inf is NaN
FMul(x, y) ==
    IF x.c = "nan" \/ y.c = "nan" THEN NaN
    ELSE IF x.c = "inf" \/ y.c = "inf"
         THEN (IF x.m = 0 \/ y.m = 0 THEN NaN ELSE Flt("inf", Sign(x.m) * Sign(y.m), 0))
    ELSE Quot(Num(x) * Num(y), Den(x) * Den(y))

\* x / y on numpy floats: a zero divisor gives an infinity, or NaN for 0 / 0,
\* and no exception; inf / inf is NaN
FDiv(x, y) ==
    IF x.c = "nan" \/ y.c = "nan" THEN NaN
    ELSE IF x.c = "inf" THEN (IF y.c = "inf" THEN NaN
                              ELSE Flt("inf", IF y.m < 0 THEN -x.m ELSE x.m, 0))
    ELSE IF y.c = "inf" THEN Zero
    ELSE IF y.m = 0 THEN (IF x.m = 0 THEN NaN ELSE Flt("inf", Sign(x.m), 0))
    ELSE Quot(Sign(y.m) * Num(x) * Den(y), Den(x) * Abs(Num(y)))

\* x == y and x < y on floats (every comparison with NaN is False)
FEq(x, y) == x.c # "nan" /\ y.c # "nan" /\ x = y
FLess(x, y) ==
    IF x.c = "nan" \/ y.c = "nan" \/ x = y THEN FALSE
    ELSE IF x.c = "inf" THEN x.m < 0
    ELSE IF y.c = "inf" THEN y.m > 0
    ELSE Num(x) * Den(y) < Num(y) * Den(x)
FLessEq(x, y) == FEq(x, y) \/ FLess(x, y)

\* an int as a float
FromInt(n) == Fin(n, 0)

\* the greatest k in lo..hi with k * k <= n
RECURSIVE ISqrtIn(_, _, _)
ISqrtIn(n, lo, hi) ==
    IF lo = hi THEN lo
    ELSE LET mid == (lo + hi + 1) \div 2
         IN  IF mid * mid <= n THEN ISqrtIn(n, mid, hi) ELSE ISqrtIn(n, lo, mid - 1)

ISqrt(n) == ISqrtIn(n, 0, IF n < 46340 THEN n ELSE 46340)

\* the square root of a float: exact for the square of a fraction, else
\* c = "sqrt", the root of the fraction m / d in lowest terms
FSqrt(x) ==
    IF x.c = "nan" \/ x.m < 0 THEN NaN
    ELSE IF x.c = "inf" THEN x
    ELSE LET g == GCD(Num(x), Den(x))
             n == Num(x) \div g
             d == Den(x) \div g
         IN  IF ISqrt(n) * ISqrt(n) = n /\ ISqrt(d) * ISqrt(d) = d
             THEN Quot(ISqrt(n), ISqrt(d))
             ELSE Flt("sqrt", n, d)

\* floor(k * n / d) for d > 0 and k > 0, without forming k * n
ScaledFloor(k, n, d) == k * (n \div d) + (k * (n % d)) \div d

\* x.round(nd): to the nearest multiple of 10^(-nd), a tie to the even one
FRound(x, nd) ==
    IF x.c \in {"nan", "inf"} THEN x
    ELSE IF x.c = "sqrt"
         THEN LET p == Pow10(nd)
                  k == ISqrt(ScaledFloor(p * p, x.m, x.d))
              IN  IF (2 * k + 1) * (2 * k + 1) <= ScaledFloor(4 * p * p, x.m, x.d)
                  THEN Fin(k + 1, nd) ELSE Fin(k, nd)
    ELSE LET p == Pow10(nd)
             q == ScaledFloor(p, Num(x), Den(x))
             r == (p * (Num(x) % Den(x))) % Den(x)
         IN  IF 2 * r > Den(x) \/ (2 * r = Den(x) /\ q % 2 = 1)
             THEN Fin(q + 1, nd) ELSE Fin(q, nd)

\* Series.sum(), Series.mean() and Series.std() of the floats of a sequence,
\* none of them NaN: the sum of no value is 0.0, the mean of no value and the
\* sample deviation of fewer than two are NaN
RECURSIVE FSum(_)
FSum(xs) == IF xs = <<>> THEN Zero ELSE FAdd(FSum(SubSeq(xs, 1, Len(xs) - 1)), xs[Len(xs)])

FMean(xs) == FDiv(FSum(xs), FromInt(Len(xs)))

FStd(xs) ==
    IF Len(xs) <= 1 THEN NaN
    ELSE LET dev == [i \in DOMAIN xs |-> FSub(xs[i], FMean(xs))]
             sq == [i \in DOMAIN xs |-> FMul(dev[i], dev[i])]
         IN  FSqrt(FDiv(FSum(sq), FromInt(Len(xs) - 1)))

\* a sequence of floats sorted descending, equal values in their first order
RECURSIVE InsertDesc(_, _)
InsertDesc(xs, x) ==
    IF xs = <<>> THEN <<x>>
    ELSE IF FLess(Head(xs), x) THEN <<x>> \o xs
    ELSE <<Head(xs)>> \o InsertDesc(Tail(xs), x)

RECURSIVE SortDesc(_)
SortDesc(xs) ==
    IF xs = <<>> THEN <<>>
    ELSE InsertDesc(SortDesc(SubSeq(xs, 1, Len(xs) - 1)), xs[Len(xs)])

\* the first n items of a sequence
Take(xs, n) == SubSeq(xs, 1, IF n < Len(xs) THEN n ELSE Len(xs))

\* a Python dict: its items, a value for each key
Dict(items) == [t |-> "dict", items |-> items]

\* the outcome of a call
NoCall == [k |-> "none", v |-> NoneV, exc |-> ""]
Return(v) == [k |-> "return", v |-> v, exc |-> ""]
Raise(e) == [k |-> "raise", v |-> NoneV, exc |-> e]

---------------------------------------------------------------------------
(* Python string operations.                                               *)

Char(s, i) == SubSeq(s, i, i)

\* s[i:] with a 0-based Python index i
From(s, i) == SubSeq(s, i + 1, Len(s))

\* s.startswith(p)
StartsWith(s, p) == Len(p) <= Len(s) /\ SubSeq(s, 1, Len(p)) = p

\* k in s
Contains(s, k) ==
    \E i \in 1..(Len(s) - Len(k) + 1) : SubSeq(s, i, i + Len(k) - 1) = k

\* s.replace(old, new) for a non-empty old: left to right, non-overlapping
RECURSIVE Replace(_, _, _)
Replace(s, old, new) ==
    IF Len(s) < Len(old) THEN s
    ELSE IF StartsWith(s, old) THEN new \o Replace(From(s, Len(old)), old, new)
    ELSE Char(s, 1) \o Replace(From(s, 1), old, new)

Digits == {"0", "1", "2", "3", "4", "5", "6", "7", "8", "9"}

DigitVal(c) ==
    CASE c = "0" -> 0 [] c = "1" -> 1 [] c = "2" -> 2 [] c = "3" -> 3
      [] c = "4" -> 4 [] c = "5" -> 5 [] c = "6" -> 6 [] c = "7" -> 7
      [] c = "8" -> 8 [] c = "9" -> 9

AllDigits(s) == \A i \in 1..Len(s) : Char(s, i) \in Digits

\* the number a string of decimal digits denotes ("" denotes 0)
RECURSIVE DigitsVal(_)
DigitsVal(s) ==
    IF s = "" THEN 0
    ELSE 10 * DigitsVal(SubSeq(s, 1, Len(s) - 1)) + DigitVal(Char(s, Len(s)))

\* the 1-based position of the first occurrence of the character c, 0 if none
RECURSIVE IndexOf(_, _)
IndexOf(s, c) ==
    IF s = "" THEN 0
    ELSE IF Char(s, 1) = c THEN 1
    ELSE LET r == IndexOf(From(s, 1), c) IN IF r = 0 THEN 0 ELSE r + 1

\* the unsigned body of a float literal: "inf", "infinity", "nan", or
\* digits with at most one "." and at least one digit
PyFloatBody(s) ==
    IF s \in {"inf", "infinity", "INF", "Inf"} THEN Return(PosInf)
    ELSE IF s \in {"nan", "NaN", "NAN"} THEN Return(NaN)
    ELSE LET p == IndexOf(s, ".")
             ip == IF p = 0 THEN s ELSE SubSeq(s, 1, p - 1)
             fp == IF p = 0 THEN "" ELSE From(s, p)
         IN  IF AllDigits(ip) /\ AllDigits(fp) /\ Len(ip) + Len(fp) > 0
             THEN Return(Fin(DigitsVal(ip \o fp), Len(fp)))
             ELSE Raise("ValueError")

\* float(s) for a str s: an optional sign, then the body.  The amount
\* strings of the model hold no whitespace other than " ", no "_" and no
\* exponent letter, so those forms of the literal do not arise.
PyFloat(s) ==
    IF s # "" /\ Char(s, 1) \in {"-", "+"}
    THEN LET r == PyFloatBody(From(s, 1))
         IN  IF r.k = "return" /\ Char(s, 1) = "-" THEN Return(FNeg(r.v)) ELSE r
    ELSE PyFloatBody(s)

LowerLetters == "abcdefghijklmnopqrstuvwxyz"
UpperLetters == "ABCDEFGHIJKLMNOPQRSTUVWXYZ"

\* c.upper() for one character (the descriptions of the model are ASCII)
UpperChar(c) ==
    LET p == IndexOf(LowerLetters, c)
    IN  IF p = 0 THEN c ELSE Char(UpperLetters, p)

\* s.upper()
RECURSIVE Upper(_)
Upper(s) == IF s = "" THEN "" ELSE UpperChar(Char(s, 1)) \o Upper(From(s, 1))

\* whitespace, as str.strip, str.split and the regex class \s see it
IsWs(c) == c = " "

RECURSIVE LStrip(_)
LStrip(s) == IF s # "" /\ IsWs(Char(s, 1)) THEN LStrip(From(s, 1)) ELSE s

RECURSIVE RStrip(_)
RStrip(s) ==
    IF s # "" /\ IsWs(Char(s, Len(s))) THEN RStrip(SubSeq(s, 1, Len(s) - 1)) ELSE s

\* s.strip()
Strip(s) == RStrip(LStrip(s))

\* the number of whitespace characters of s from position p on
RECURSIVE WsRun(_, _)
WsRun(s, p) == IF p <= Len(s) /\ IsWs(Char(s, p)) THEN 1 + WsRun(s, p + 1) ELSE 0

\* the number of non-whitespace characters of s from position p on
RECURSIVE WordRun(_, _)
WordRun(s, p) ==
    IF p <= Len(s) /\ ~IsWs(Char(s, p)) THEN 1 + WordRun(s, p + 1) ELSE 0

\* s.split(): the maximal runs of non-whitespace characters
RECURSIVE Split(_)
Split(s) ==
    LET r == LStrip(s)
        n == WordRun(r, 1)
    IN  IF r = "" THEN <<>> ELSE <<SubSeq(r, 1, n)>> \o Split(From(r, n))

\* sep.join(words)
RECURSIVE Join(_, _)
Join(words, sep) ==
    IF words = <<>> THEN ""
    ELSE IF Len(words) = 1 THEN words[1]
    ELSE words[1] \o sep \o Join(Tail(words), sep)

---------------------------------------------------------------------------
(* FinancialDataProcessor.clean_monetary_value                             *)

\* line 26: the chain of str.replace calls
CleanChars(s) ==
    Replace(Replace(Replace(Replace(s, "\"", ""), "R$", ""), " ", ""), ",", ".")

clean_monetary_value(value) ==
    IF IsNa(value) \/ value = Str("") THEN Return(Zero)
    ELSE IF value.t = "str" THEN
        LET v == CleanChars(value.s)
        IN  IF StartsWith(v, "-")
            THEN IF From(v, 1) # "" /\ From(v, 1) # "-"
                 THEN LET r == PyFloat(From(v, 1))
                      IN  IF r.k = "return" THEN Return(FNeg(r.v)) ELSE r
                 ELSE Return(Zero)
            ELSE IF v # "" THEN PyFloat(v) ELSE Return(Zero)
    ELSE Return(value)

---------------------------------------------------------------------------
(* FinancialDataProcessor.__init__                                         *)

Constructed ==
    /\ df_processed = NoneV
    /\ analysis_results = Dict(<<>>)
    /\ screen = <<>>      \* nothing has been shown yet

---------------------------------------------------------------------------
(* Inputs of the amount parser.                                            *)

AmountAlphabet == {"0", "1", ",", ".", "-", "$", "R", " "}

\* every string over AmountAlphabet of length at most n
RECURSIVE StringsUpTo(_)
StringsUpTo(n) ==
    IF n = 0 THEN {""}
    ELSE LET S == StringsUpTo(n - 1)
         IN  S \cup {s \o c : s \in {x \in S : Len(x) = n - 1}, c \in AmountAlphabet}

\* amounts as bank statements and the generator write them
SampleAmounts ==
    {"1.234,56", "1234,56", "-R$ 50,00", "R$ 50,00", "\"6800,00\"", "-25,00",
     "12.345.678,90", "1.234", "abc", "inf", "-inf", "nan", "--5", "-",
     "6800.00", "-30.00", "+5"}

AmountStrings == StringsUpTo(MaxLen) \cup SampleAmounts

\* numeric cells as pandas reads them
SampleNumbers == {Fin(680000, 2), Fin(-2500, 2), Zero, NaN, PosInf, NegInf}

AmountInputs == {NoneV} \cup {Str(s) : s \in AmountStrings} \cup SampleNumbers

---------------------------------------------------------------------------
(* The amount parser called on one value.                                  *)

InitParse ==
    /\ call = ""
    /\ arg \in AmountInputs
    /\ ret = NoCall
    /\ Constructed

CleanMonetaryValue ==
    /\ call = ""
    /\ call' = "clean_monetary_value"
    /\ ret' = clean_monetary_value(arg)
    /\ UNCHANGED <<screen, arg, df_processed, analysis_results>>

NextParse == CleanMonetaryValue

SpecParse == InitParse /\ [][NextParse]_vars

---------------------------------------------------------------------------
(* FinancialDataProcessor.categorize_operation                             *)

\* a Python list
List(items) == [t |-> "list", items |-> items]

\* isinstance(x, list)
IsList(x) == x.t = "list"

\* a and b on two lists: the first operand when it is empty, else the second
PyAnd(a, b) == IF a.items = <<>> THEN a ELSE b

\* a list of str from the keywords
L(kws) == List([i \in DOMAIN kws |-> Str(kws[i])])

Rule(category, keywords) == [category |-> category, keywords |-> keywords]

\* lines 43-57: the dict, in insertion order, each value as Python evaluates it
category_rules ==
    << Rule("Pix Recebido", PyAnd(L(<<"PIX">>), L(<<"RECEBIDO">>))),
       Rule("Pix Enviado", PyAnd(L(<<"PIX">>), L(<<"ENVIADO">>))),
       Rule("Pagamento Cartão Crédito", PyAnd(L(<<"PAGAMENTO">>), L(<<"CARTAO CREDITO">>))),
       Rule("Cartão de Débito", L(<<"COMPRA CARTAO DEB">>)),
       Rule("Transferência", L(<<"TED", "DOC">>)),
       Rule("Salário", L(<<"LIQUIDO DE VENCIMENTO">>)),
       Rule("Contas/Serviços", L(<<"AGUA", "ESGOTO", "CLARO", "TELEFONE", "DEBITO AUT">>)),
       Rule("Boleto", L(<<"BOLETO">>)),
       Rule("Estorno", L(<<"ESTORNO">>)),
       Rule("Saque", L(<<"SAQUE">>)),
       Rule("Depósito", L(<<"DEPOSITO", "DEPÓSITO">>)),
       Rule("Rendimento", L(<<"REMUNERACAO APLICACAO">>)),
       Rule("Taxas/IOF", L(<<"IOF">>)) >>

\* any(kw in desc for kw in keywords)
AnyKeyword(keywords, desc) ==
    \E i \in DOMAIN keywords.items : Contains(desc, keywords.items[i].s)

\* lines 60-67: the test of one rule
RuleMatches(keywords, desc) ==
    IF IsList(keywords.items[1])
    THEN \A i \in DOMAIN keywords.items : AnyKeyword(keywords.items[i], desc)
    ELSE AnyKeyword(keywords, desc)

\* the loop with the last matching rule winning instead of the first
RECURSIVE OperationFrom_LastWins(_, _)
OperationFrom_LastWins(i, desc) ==
    IF i > Len(category_rules) THEN "Outros"
    ELSE LET later == OperationFrom_LastWins(i + 1, desc)
         IN  IF later = "Outros" /\ RuleMatches(category_rules[i].keywords, desc)
             THEN category_rules[i].category
             ELSE later

\* lines 59-69: the loop over the rules from rule i on
RECURSIVE OperationFrom(_, _)
OperationFrom(i, desc) ==
    IF i > Len(category_rules) THEN "Outros"
    ELSE IF RuleMatches(category_rules[i].keywords, desc) THEN category_rules[i].category
    ELSE OperationFrom(i + 1, desc)

categorize_operation(description) ==
    IF IsNa(description) THEN Return(Str("Não Informado"))
    ELSE Return(Str(OperationFrom(1, Upper(description.s))))

---------------------------------------------------------------------------
(* FinancialDataProcessor.categorize_establishment                         *)

\* lines 80-106: the dict, in insertion order
categories ==
    << Rule("Transporte", L(<<"UBER", "99", "TAXI", "CABIFY", "METRO">>)),
       Rule("Alimentação", L(<<"RESTAURANT", "PIZZA", "BURGER", "FOOD", "CAFE", "BAR",
                               "LANCHE", "HORTIFRUTI", "MERCADO", "SUBWAY", "DONA MARIA",
                               "EXTRA", "NORDESTE", "IMPERADOR">>)),
       Rule("Compras/Varejo", L(<<"SHOPPING", "LOJA", "MAGAZINE", "MINI EXTRA">>)),
       Rule("Serviços/Utilities", L(<<"CLARO", "AGUA", "ESGOTO", "SABESP", "ELETROPAULO",
                                      "TELEFONE", "SALON", "CLINICA", "HOSPITAL">>)),
       Rule("Habitação", L(<<"CONDOMINIO", "ALUGUEL", "F. PEREIRA">>)),
       Rule("Financeiro", L(<<"BANCO", "CAIXA", "FINANCEIRA", "WISE", "CARTAO CREDITO",
                              "IOF", "BCE", "AITRADBRASIL">>)),
       Rule("Saúde", L(<<"SAUDE", "BRADESCO SAUDE", "DROGASIL">>)),
       Rule("Pessoas Físicas", L(<<"PAMELA", "CECILIA", "LEONARDO", "MARGARETE",
                                   "LIDIANE", "CARLOS", "LORRAINE", "MARLUCIA">>)),
       Rule("Renda/Trabalho", L(<<"LIQUIDO DE VENCIMENTO", "CNPJ", "CAIXOTE COMERCIO">>)),
       Rule("Educação/Serviços", L(<<"COPIADORA", "ENCADERNA", "IDEAL FOTOS">>)),
       Rule("Entretenimento", L(<<"CLUBE DO INGRESSO">>)),
       Rule("Tecnologia", L(<<"LETS SOFTWARE", "VETST ECNOLOGIA">>)) >>

\* the loop with the last matching category winning instead of the first
RECURSIVE EstablishmentFrom_LastWins(_, _)
EstablishmentFrom_LastWins(i, desc) ==
    IF i > Len(categories) THEN "Outros"
    ELSE LET later == EstablishmentFrom_LastWins(i + 1, desc)
         IN  IF later = "Outros" /\ AnyKeyword(categories[i].keywords, desc)
             THEN categories[i].category
             ELSE later

\* lines 108-112: the loop over the categories from category i on
RECURSIVE EstablishmentFrom(_, _)
EstablishmentFrom(i, desc) ==
    IF i > Len(categories) THEN "Outros"
    ELSE IF AnyKeyword(categories[i].keywords, desc) THEN categories[i].category
    ELSE EstablishmentFrom(i + 1, desc)

categorize_establishment(description) ==
    IF IsNa(description) THEN Return(Str("Não Informado"))
    ELSE Return(Str(EstablishmentFrom(1, Upper(description.s))))

---------------------------------------------------------------------------
(* FinancialDataProcessor.extract_establishment_name                       *)

\* the outcome of a regex match: whether it matched, and group(1)
NoMatch == [ok |-> FALSE, g |-> ""]
Match(g) == [ok |-> TRUE, g |-> g]

\* (.+?)(?:\s|$) at position p: the shortest non-empty text that is followed
\* by whitespace or by the end of the string
LazyGroup(s, p) ==
    IF p > Len(s) THEN NoMatch
    ELSE Match(SubSeq(s, p, p + WordRun(s, p + 1)))

\* \s+(.+?)(?:\s|$) at position q: \s+ is greedy and gives a character back
\* when it has run to the end of the string
WsThenGroup(s, q) ==
    LET n == WsRun(s, q)
    IN  IF n = 0 THEN NoMatch
        ELSE IF q + n <= Len(s) THEN LazyGroup(s, q + n)
        ELSE IF n >= 2 THEN LazyGroup(s, q + n - 1)
        ELSE NoMatch

\* \s+\d{2}/\d{2}\s+(.+?)(?:\s|$) at position q
DateThenGroup(s, q) ==
    LET p == q + WsRun(s, q)
    IN  IF /\ p > q
           /\ p + 4 <= Len(s)
           /\ AllDigits(SubSeq(s, p, p + 1))
           /\ Char(s, p + 2) = "/"
           /\ AllDigits(SubSeq(s, p + 3, p + 4))
        THEN WsThenGroup(s, p + 5)
        ELSE NoMatch

\* a pattern of lines 123-129: the key looked up in the upper-cased
\* description, the literal text the regex starts with (one entry for each
\* alternative) and the form of what follows it
Pattern(key, lits, tail) == [key |-> key, lits |-> lits, tail |-> tail]

patterns ==
    << \* r'PIX (?:RECEBIDO|ENVIADO)\s+(.+?)(?:\s|$)'
       Pattern("PIX", <<"PIX RECEBIDO", "PIX ENVIADO">>, "ws"),
       \* r'COMPRA CARTAO DEB MC\s+\d{2}/\d{2}\s+(.+?)(?:\s|$)'
       Pattern("CARTAO", <<"COMPRA CARTAO DEB MC">>, "date"),
       \* r'PAGAMENTO DE BOLETO.*?(.+?)(?:\s|$)'
       Pattern("PAGAMENTO", <<"PAGAMENTO DE BOLETO">>, "lazy"),
       \* r'TED (?:RECEBIDA|ENVIADA)\s+(.+?)(?:\s|$)'
       Pattern("TED", <<"TED RECEBIDA", "TED ENVIADA">>, "ws"),
       \* r'LIQUIDO DE VENCIMENTO\s+(.+?)(?:\s|$)'
       Pattern("LIQUIDO", <<"LIQUIDO DE VENCIMENTO">>, "ws") >>

\* what follows the literal text, from position q on
TailAt(s, q, tail) ==
    CASE tail = "ws" -> WsThenGroup(s, q)
      [] tail = "date" -> DateThenGroup(s, q)
      [] tail = "lazy" -> LazyGroup(s, q)

\* the pattern tried at position i of s, letters compared without case
MatchAt(s, i, pat) ==
    LET hit == {j \in DOMAIN pat.lits :
                   /\ i + Len(pat.lits[j]) - 1 <= Len(s)
                   /\ Upper(SubSeq(s, i, i + Len(pat.lits[j]) - 1)) = pat.lits[j]}
    IN  IF hit = {} THEN NoMatch
        ELSE LET j == CHOOSE x \in hit : \A y \in hit : x <= y
             IN  TailAt(s, i + Len(pat.lits[j]), pat.tail)

\* re.search(pattern, s, re.IGNORECASE): the leftmost match, from position i on
RECURSIVE SearchFrom(_, _, _)
SearchFrom(s, i, pat) ==
    IF i > Len(s) THEN NoMatch
    ELSE IF MatchAt(s, i, pat).ok THEN MatchAt(s, i, pat)
    ELSE SearchFrom(s, i + 1, pat)

Fallback_FromThird(desc) ==
    LET words == Split(desc)
    IN  IF Len(words) > 3 THEN Strip(Join(SubSeq(words, 3, Len(words)), " "))
        ELSE Strip(desc)

\* lines 139-144: the fallback
Fallback(desc) ==
    LET words == Split(desc)
    IN  IF Len(words) > 3 THEN Strip(Join(SubSeq(words, 4, Len(words)), " "))
        ELSE Strip(desc)

\* lines 133-137: the loop over the patterns from pattern i on
RECURSIVE ExtractFrom(_, _)
ExtractFrom(i, desc) ==
    IF i > Len(patterns) THEN Fallback(desc)
    ELSE IF /\ Contains(Upper(desc), patterns[i].key)
            /\ SearchFrom(desc, 1, patterns[i]).ok
         THEN Strip(SearchFrom(desc, 1, patterns[i]).g)
    ELSE ExtractFrom(i + 1, desc)

extract_establishment_name(description) ==
    IF IsNa(description) THEN Return(Str("Não Informado"))
    ELSE Return(Str(ExtractFrom(1, Strip(description.s))))

---------------------------------------------------------------------------
(* Dates: pd.to_datetime(..., format='%d/%m/%Y', errors='coerce')          *)

IsLeap(y) == (y % 4 = 0 /\ y % 100 # 0) \/ y % 400 = 0

DaysInMonth(y, m) ==
    IF m = 2 THEN (IF IsLeap(y) THEN 29 ELSE 28)
    ELSE IF m \in {4, 6, 9, 11} THEN 30
    ELSE 31

\* the number of days from 1970-01-01 to the date y-m-d
DayNumber(y, m, d) ==
    LET yy == IF m <= 2 THEN y - 1 ELSE y
        era == yy \div 400
        yoe == yy - era * 400
        mp == IF m > 2 THEN m - 3 ELSE m + 9
        doy == (153 * mp + 2) \div 5 + d - 1
        doe == yoe * 365 + yoe \div 4 - yoe \div 100 + doy
    IN  era * 146097 + doe - 719468

\* a Timestamp at midnight; n is its day number
Date(y, m, d) == [t |-> "date", y |-> y, m |-> m, d |-> d, n |-> DayNumber(y, m, d)]

\* the directive %d: 3[0-1]|[1-2]\d|0[1-9]|[1-9]| [1-9]
IsDayField(s) ==
    \/ Len(s) = 2 /\ AllDigits(s) /\ DigitsVal(s) \in 1..31
    \/ Len(s) = 1 /\ AllDigits(s) /\ DigitsVal(s) \in 1..9
    \/ Len(s) = 2 /\ Char(s, 1) = " " /\ AllDigits(Char(s, 2)) /\ DigitsVal(Char(s, 2)) \in 1..9

\* the directive %m: 1[0-2]|0[1-9]|[1-9]
IsMonthField(s) ==
    \/ Len(s) = 2 /\ AllDigits(s) /\ DigitsVal(s) \in 1..12
    \/ Len(s) = 1 /\ AllDigits(s) /\ DigitsVal(s) \in 1..9

\* the directive %Y: \d\d\d\d
IsYearField(s) == Len(s) = 4 /\ AllDigits(s)

\* the days Timestamp can hold at midnight: 1677-09-22 to 2262-04-11
InTimestampRange(y, m, d) ==
    /\ DayNumber(y, m, d) >= DayNumber(1677, 9, 22)
    /\ DayNumber(y, m, d) <= DayNumber(2262, 4, 11)

\* one cell of the column: a Timestamp, or NaT for a null, for text that is
\* not day/month/year, and for a date that does not exist
to_datetime(v) ==
    IF v.t # "str" THEN NoneV
    ELSE LET s == v.s
             p == IndexOf(s, "/")
             r == From(s, p)
             q == IndexOf(r, "/")
             ds == SubSeq(s, 1, p - 1)
             ms == SubSeq(r, 1, q - 1)
             ys == From(r, q)
         IN  IF /\ p > 0
                /\ q > 0
                /\ IsDayField(ds)
                /\ IsMonthField(ms)
                /\ IsYearField(ys)
                /\ DigitsVal(ys) >= 1
                /\ DigitsVal(Strip(ds)) <= DaysInMonth(DigitsVal(ys), DigitsVal(ms))
                /\ InTimestampRange(DigitsVal(ys), DigitsVal(ms), DigitsVal(Strip(ds)))
             THEN Date(DigitsVal(ys), DigitsVal(ms), DigitsVal(Strip(ds)))
             ELSE NoneV

\* Series.dt.day_name() and Series.dt.month_name()
DayNames ==
    <<"Monday", "Tuesday", "Wednesday", "Thursday", "Friday", "Saturday", "Sunday">>

MonthNames ==
    <<"January", "February", "March", "April", "May", "June", "July", "August",
      "September", "October", "November", "December">>

\* Series.dt.weekday: Monday is 0 (1970-01-01 was a Thursday)
Weekday(date) == (date.n + 3) % 7

---------------------------------------------------------------------------
(* FinancialDataProcessor.process_dataframe                                *)

\* a DataFrame: its rows in index order
DataFrame(rows) == [t |-> "df", rows |-> rows]

\* lines 154-156: whether a .apply(self.clean_monetary_value) raises on a row
CleanRaises(row) ==
    \/ clean_monetary_value(row.Entradas).k = "raise"
    \/ clean_monetary_value(row.Saidas).k = "raise"
    \/ clean_monetary_value(row.Saldo).k = "raise"

\* lines 151-177: the columns of one row of df_clean
ProcessRow(row) ==
    LET Data == to_datetime(row.Data)
        Entradas_Limpo == clean_monetary_value(row.Entradas).v
        Saidas_Limpo == clean_monetary_value(row.Saidas).v
        Valor == FAdd(Entradas_Limpo, Saidas_Limpo)
        nat == IsNa(Data)
    IN  [ Data |-> Data,
          Descricao |-> row.Descricao,
          Entradas |-> row.Entradas,
          Saidas |-> row.Saidas,
          Saldo |-> row.Saldo,
          Entradas_Limpo |-> Entradas_Limpo,
          Saidas_Limpo |-> Saidas_Limpo,
          Saldo_Limpo |-> clean_monetary_value(row.Saldo).v,
          Valor |-> Valor,
          Categoria_Operacao |-> categorize_operation(row.Descricao).v,
          Categoria_Estabelecimento |-> categorize_establishment(row.Descricao).v,
          Estabelecimento |-> extract_establishment_name(row.Descricao).v,
          Ano |-> IF nat THEN NoneV ELSE Fin(Data.y, 0),
          Mes |-> IF nat THEN NoneV ELSE Fin(Data.m, 0),
          Dia |-> IF nat THEN NoneV ELSE Fin(Data.d, 0),
          Dia_Semana |-> IF nat THEN NoneV ELSE Str(DayNames[Weekday(Data) + 1]),
          Mes_Nome |-> IF nat THEN NoneV ELSE Str(MonthNames[Data.m]),
          Trimestre |-> IF nat THEN NoneV ELSE Fin((Data.m - 1) \div 3 + 1, 0),
          Is_Weekend |-> ~nat /\ Weekday(Data) >= 5,
          Is_Entrada |-> FPos(Valor),
          Is_Saida |-> FNegative(Valor) ]

\* line 180: a row dropna(subset=['Data', 'Valor']) keeps
NotDropped(r) == ~IsNa(r.Data) /\ ~IsNa(r.Valor)

\* the value process_dataframe returns, or the exception it raises; the
\* frame returned is the one it stores in self.df_processed
process_dataframe(df) ==
    IF \E i \in DOMAIN df.rows : CleanRaises(df.rows[i])
    THEN Raise("ValueError")
    ELSE Return(DataFrame(SelectSeq([i \in DOMAIN df.rows |-> ProcessRow(df.rows[i])],
                                    NotDropped)))

---------------------------------------------------------------------------
(* FinancialDataProcessor.calculate_indicators                             *)

\* df[column] of a sequence of rows
Column(rows, column) == [i \in DOMAIN rows |-> rows[i][column]]

\* lines 188-189: df[df['Valor'] > 0] and df[df['Valor'] < 0]
EntradasOf(df) == SelectSeq(df.rows, LAMBDA r : FPos(r.Valor))

\* mutation: every row is taken for an outflow
SaidasOf_All(df) == df.rows

SaidasOf(df) == SelectSeq(df.rows, LAMBDA r : FNegative(r.Valor))

\* Series.nunique() and the values it counts
Unique(xs) == {xs[i] : i \in DOMAIN xs}

\* df['Data'].min() and df['Data'].max(): NaT for a frame with no row
DateMin(rows) ==
    IF rows = <<>> THEN NoneV
    ELSE CHOOSE d \in Unique(Column(rows, "Data")) :
             \A e \in Unique(Column(rows, "Data")) : d.n <= e.n

DateMax(rows) ==
    IF rows = <<>> THEN NoneV
    ELSE CHOOSE d \in Unique(Column(rows, "Data")) :
             \A e \in Unique(Column(rows, "Data")) : d.n >= e.n

\* line 198: (periodo_fim - periodo_inicio).days + 1; NaT - NaT is NaT, whose
\* .days is NaN
DiasPeriodo(rows) ==
    IF rows = <<>> THEN NaN ELSE FromInt(DateMax(rows).n - DateMin(rows).n + 1)

\* the members of a finite set in some order
RECURSIVE SetToSeq(_)
SetToSeq(S) ==
    IF S = {} THEN <<>>
    ELSE LET x == CHOOSE y \in S : TRUE IN <<x>> \o SetToSeq(S \ {x})

\* rows.groupby(column)['Valor'].sum(): the sum of each group, one per key
GroupSums(rows, column) ==
    LET keys == SetToSeq(Unique(Column(rows, column)))
    IN  [k \in DOMAIN keys |->
            FSum(Column(SelectSeq(rows, LAMBDA r : r[column] = keys[k]), "Valor"))]

\* line 251: saidas.nlargest(5, 'Valor')['Valor'].sum(): of the five greatest
\* values of the column
Top5Gastos(saidas) == FSum(Take(SortDesc(Column(saidas, "Valor")), 5))

\* lines 255-257: the three greatest absolute sums by establishment, summed
GastosPorEstabelecimento(saidas) ==
    SortDesc([k \in DOMAIN GroupSums(saidas, "Estabelecimento") |->
                 FAbs(GroupSums(saidas, "Estabelecimento")[k])])

Top3Estabelecimentos(saidas) == FSum(Take(GastosPorEstabelecimento(saidas), 3))

\* lines 186-261: the dict returned, which is also stored in
\* self.analysis_results; the frame is read only
calculate_indicators(df) ==
    LET entradas == EntradasOf(df)
        saidas == SaidasOf(df)
        total_entradas == FSum(Column(entradas, "Valor"))
        total_saidas == FAbs(FSum(Column(saidas, "Valor")))
        saldo_liquido == FSub(total_entradas, total_saidas)
        dias_periodo == DiasPeriodo(df.rows)
        n == FromInt(Len(df.rows))
    IN  Return(Dict(
        [ total_entradas |-> total_entradas,
          total_saidas |-> total_saidas,
          saldo_liquido |-> saldo_liquido,
          giro_financeiro |-> FAdd(total_entradas, total_saidas),
          taxa_poupanca |->
              IF FPos(total_entradas)
              THEN FMul(FDiv(saldo_liquido, total_entradas), FromInt(100)) ELSE Zero,
          razao_entrada_saida |->
              IF FPos(total_saidas) THEN FDiv(total_entradas, total_saidas) ELSE Zero,
          gasto_medio_diario |->
              IF FPos(dias_periodo) THEN FDiv(total_saidas, dias_periodo) ELSE Zero,
          entrada_media_diaria |->
              IF FPos(dias_periodo) THEN FDiv(total_entradas, dias_periodo) ELSE Zero,
          transacoes_por_dia |->
              IF FPos(dias_periodo) THEN FDiv(n, dias_periodo) ELSE Zero,
          ticket_medio_gasto |->
              IF Len(saidas) > 0 THEN FAbs(FMean(Column(saidas, "Valor"))) ELSE Zero,
          ticket_medio_entrada |->
              IF Len(entradas) > 0 THEN FMean(Column(entradas, "Valor")) ELSE Zero,
          ticket_medio_geral |->
              FMean([i \in DOMAIN df.rows |-> FAbs(df.rows[i].Valor)]),
          maior_gasto_individual |->
              IF Len(saidas) > 0
              THEN FAbs(SortDesc(Column(saidas, "Valor"))[Len(saidas)]) ELSE Zero,
          maior_entrada_individual |->
              IF Len(entradas) > 0
              THEN SortDesc(Column(entradas, "Valor"))[1] ELSE Zero,
          total_transacoes |-> n,
          total_entradas_transacoes |-> FromInt(Len(entradas)),
          total_saidas_transacoes |-> FromInt(Len(saidas)),
          estabelecimentos_unicos |->
              FromInt(Cardinality(Unique(Column(df.rows, "Estabelecimento")))),
          categorias_gastos |->
              FromInt(Cardinality(Unique(Column(saidas, "Categoria_Estabelecimento")))),
          dias_periodo |-> dias_periodo,
          dias_com_movimentacao |->
              FromInt(Cardinality(Unique(Column(df.rows, "Data")))),
          periodo_inicio |-> DateMin(df.rows),
          periodo_fim |-> DateMax(df.rows),
          volatilidade_gastos |->
              IF Len(saidas) > 1 THEN FStd(Column(saidas, "Valor")) ELSE Zero,
          volatilidade_entradas |->
              IF Len(entradas) > 1 THEN FStd(Column(entradas, "Valor")) ELSE Zero,
          concentracao_top5_gastos |->
              IF Len(saidas) >= 5
              THEN (IF FPos(total_saidas)
                    THEN FMul(FDiv(FAbs(Top5Gastos(saidas)), total_saidas), FromInt(100))
                    ELSE Zero)
              ELSE Zero,
          concentracao_top3_estabelecimentos |->
              IF Len(GastosPorEstabelecimento(saidas)) >= 3
              THEN FMul(FDiv(Top3Estabelecimentos(saidas), total_saidas), FromInt(100))
              ELSE Zero ]))

---------------------------------------------------------------------------
(* FinancialDataProcessor.get_category_analysis                            *)

\* the values of Categoria_Estabelecimento in the order groupby sorts its
\* keys, that of their code points
CategoryKeys ==
    << "Alimentação", "Compras/Varejo", "Educação/Serviços", "Entretenimento",
       "Financeiro", "Habitação", "Não Informado", "Outros", "Pessoas Físicas",
       "Renda/Trabalho", "Saúde", "Serviços/Utilities", "Tecnologia", "Transporte" >>

\* the rows of a group
Group(rows, column, key) == SelectSeq(rows, LAMBDA r : r[column] = Str(key))

\* the keys of CategoryKeys from position k on that have a row, in order
RECURSIVE GroupKeys(_, _)
GroupKeys(rows, k) ==
    IF k > Len(CategoryKeys) THEN <<>>
    ELSE IF Group(rows, "Categoria_Estabelecimento", CategoryKeys[k]) = <<>>
         THEN GroupKeys(rows, k + 1)
    ELSE <<CategoryKeys[k]>> \o GroupKeys(rows, k + 1)

\* frame.sort_values(column, ascending=False): the rows by the float of a
\* column, the greatest first; rows of equal value keep their order, as the
\* sort of a frame of fewer than 16 rows does
RECURSIVE InsertRowDesc(_, _, _)
InsertRowDesc(rows, r, column) ==
    IF rows = <<>> THEN <<r>>
    ELSE IF FLess(Head(rows)[column], r[column]) THEN <<r>> \o rows
    ELSE <<Head(rows)>> \o InsertRowDesc(Tail(rows), r, column)

RECURSIVE SortRowsDesc(_, _)
SortRowsDesc(rows, column) ==
    IF rows = <<>> THEN <<>>
    ELSE InsertRowDesc(SortRowsDesc(SubSeq(rows, 1, Len(rows) - 1), column),
                       rows[Len(rows)], column)

\* lines 268-276: the row of gastos_categoria for one category
GastosCategoriaRow(rows, key) ==
    LET g == Group(rows, "Categoria_Estabelecimento", key)
    IN  [ Categoria_Estabelecimento |-> Str(key),
          Qtd_Transacoes |-> FromInt(Len(g)),
          Valor_Total |-> FAbs(FRound(FSum(Column(g, "Valor")), 2)),
          Valor_Medio |-> FAbs(FRound(FMean(Column(g, "Valor")), 2)),
          Desvio_Padrao |-> FRound(FStd(Column(g, "Valor")), 2),
          Estabelecimentos_Unicos |->
              FromInt(Cardinality(Unique(Column(g, "Estabelecimento")))),
          Dias_Ativos |-> FromInt(Cardinality(Unique(Column(g, "Data")))) ]

\* lines 281-285: the row of entradas_categoria for one category
EntradasCategoriaRow(rows, key) ==
    LET g == Group(rows, "Categoria_Estabelecimento", key)
    IN  [ Categoria_Estabelecimento |-> Str(key),
          Qtd_Transacoes |-> FromInt(Len(g)),
          Valor_Total |-> FRound(FSum(Column(g, "Valor")), 2),
          Valor_Medio |-> FRound(FMean(Column(g, "Valor")), 2) ]

\* lines 263-288: the dict of the two views; the frame is read only
get_category_analysis(df) ==
    LET gk == GroupKeys(SaidasOf(df), 1)
        ek == GroupKeys(EntradasOf(df), 1)
    IN  Return(Dict(
        [ gastos |-> DataFrame(SortRowsDesc(
              [k \in DOMAIN gk |-> GastosCategoriaRow(SaidasOf(df), gk[k])], "Valor_Total")),
          entradas |-> DataFrame(SortRowsDesc(
              [k \in DOMAIN ek |-> EntradasCategoriaRow(EntradasOf(df), ek[k])],
              "Valor_Total")) ]))

---------------------------------------------------------------------------
(* FinancialDataProcessor.detect_anomalies                                 *)

\* the day after a date
NextDay(date) ==
    IF date.d < DaysInMonth(date.y, date.m) THEN Date(date.y, date.m, date.d + 1)
    ELSE IF date.m < 12 THEN Date(date.y, date.m + 1, 1)
    ELSE Date(date.y + 1, 1, 1)

\* pd.date_range(start, end, freq='D'): every day from start to end, both
\* included
RECURSIVE date_range(_, _)
date_range(start, end) ==
    IF start.n > end.n THEN <<>>
    ELSE <<start>> \o date_range(NextDay(start), end)

\* mutation: the days are not filtered by dias_com_transacao
DiasSemMovimento_All(df) ==
    date_range(DateMin(df.rows), DateMax(df.rows))

\* lines 416-418: the days of the period that are not the date of a row
DiasSemMovimento(df) ==
    SelectSeq(date_range(DateMin(df.rows), DateMax(df.rows)),
              LAMBDA dia : dia \notin Unique(Column(df.rows, "Data")))

\* mutation: one deviation above the mean is enough
ExceedsTwoStd_One(x, media, std) ==
    LET d == FSub(x, media)
    IN  IF std.c = "nan" \/ d.c = "nan" THEN FALSE
        ELSE IF std.c = "sqrt"
             THEN FPos(d) /\ (d.c = "inf" \/ FLess(Quot(std.m, std.d), FMul(d, d)))
        ELSE FLess(FAdd(media, std), x)

\* x > media + 2 * std on floats: False when one of them is NaN.  The
\* deviation of a category is the root of its variance; with d = x - media
\* the test is d > 0 and d * d > 4 * variance.
ExceedsTwoStd(x, media, std) ==
    LET d == FSub(x, media)
    IN  IF std.c = "nan" \/ d.c = "nan" THEN FALSE
        ELSE IF std.c = "sqrt"
             THEN FPos(d) /\ (d.c = "inf" \/ FLess(Quot(4 * std.m, std.d), FMul(d, d)))
        ELSE FLess(FAdd(media, FMul(FromInt(2), std)), x)

\* line 410: (valor_abs - media_categoria) / std_categoria if std_categoria > 0
\* else 0, for a flagged row (valor_abs > media_categoria)
Desvio(x, media, std) ==
    IF std.c = "sqrt"
    THEN LET d == FSub(x, media)
         IN  IF d.c = "inf" THEN d ELSE FSqrt(FDiv(FMul(d, d), Quot(std.m, std.d)))
    ELSE IF FPos(std) THEN FDiv(FSub(x, media), std)
    ELSE Zero

\* lines 392-411: the dict appended for an outflow row, or nothing
AnomalyOf(row, saidas) ==
    LET g == SelectSeq(saidas, LAMBDA r :
                 r.Categoria_Estabelecimento = row.Categoria_Estabelecimento)
        valor_abs == FAbs(row.Valor)
        media_categoria == FAbs(FMean(Column(g, "Valor")))
        std_categoria == FStd(Column(g, "Valor"))
    IN  IF ExceedsTwoStd(valor_abs, media_categoria, std_categoria)
        THEN << Dict([ data |-> row.Data,
                       estabelecimento |-> row.Estabelecimento,
                       valor |-> row.Valor,
                       categoria |-> row.Categoria_Estabelecimento,
                       media_categoria |-> FNeg(media_categoria),
                       desvio |-> Desvio(valor_abs, media_categoria, std_categoria) ]) >>
        ELSE <<>>

\* lines 394-413: anomalies_categoria, in the order of the outflow rows
AnomaliesCategoria(df) ==
    LET saidas == SaidasOf(df)
        RECURSIVE from(_)
        from(i) == IF i > Len(saidas) THEN <<>>
                   ELSE AnomalyOf(saidas[i], saidas) \o from(i + 1)
    IN  from(1)

\* lines 372-425: the entries 'categoria' and 'dias_sem_movimento' of the
\* dict returned.  pd.date_range raises ValueError for the NaT bounds of a
\* frame with no row.  The entry 'iqr' (lines 376-389) is computed before
\* them from the frame alone, raises nothing and is left out.  The frame is
\* read only and nothing is stored.
detect_anomalies(df) ==
    IF df.rows = <<>> THEN Raise("ValueError")
    ELSE Return(Dict(
        [ categoria |-> List(AnomaliesCategoria(df)),
          dias_sem_movimento |->
              Dict([ quantidade |-> FromInt(Len(DiasSemMovimento(df))),
                     dias |-> List(DiasSemMovimento(df)) ]) ]))

---------------------------------------------------------------------------
(* FinancialDataProcessor.get_establishment_analysis                       *)

\* the ASCII characters of establishment names in the order of their code
\* points
CodePoints ==
    " !#$%&'()*+,-./0123456789:;<=>?@" \o UpperLetters \o "[]^_" \o LowerLetters \o "{|}~"

\* the rank of a character; a character beyond ASCII comes after all of them
Ord(c) ==
    IF \E i \in 1..Len(CodePoints) : Char(CodePoints, i) = c
    THEN CHOOSE i \in 1..Len(CodePoints) : Char(CodePoints, i) = c
    ELSE Len(CodePoints) + 1

\* a < b on str
RECURSIVE StrLess(_, _)
StrLess(a, b) ==
    IF b = "" THEN FALSE
    ELSE IF a = "" THEN TRUE
    ELSE IF Char(a, 1) = Char(b, 1) THEN StrLess(From(a, 1), From(b, 1))
    ELSE Ord(Char(a, 1)) < Ord(Char(b, 1))

\* the str values of a set in ascending order, as groupby sorts its keys
SortedKeys(S) ==
    [i \in 1..Cardinality(S) |->
        CHOOSE x \in S : Cardinality({z \in S : StrLess(z.s, x.s)}) = i - 1]

\* the rows of the group of one establishment
GroupOf(rows, key) == SelectSeq(rows, LAMBDA r : r.Estabelecimento = key)

\* x.mode().iloc[0] of the categories of a group: the most frequent one, the
\* first in ascending order among equals
Mode(g) ==
    LET n(k) == Len(Group(g, "Categoria_Estabelecimento", CategoryKeys[k]))
        k0 == CHOOSE k \in DOMAIN CategoryKeys :
                  \A j \in DOMAIN CategoryKeys : n(j) < n(k) \/ (n(j) = n(k) /\ k <= j)
    IN  Str(CategoryKeys[k0])

\* lines 295-307: the row of gastos_estabelecimento for one establishment
GastosEstabelecimentoRow(rows, key) ==
    LET g == GroupOf(rows, key)
    IN  [ Estabelecimento |-> key,
          Qtd_Transacoes |-> FromInt(Len(g)),
          Valor_Total |-> FAbs(FRound(FSum(Column(g, "Valor")), 2)),
          Valor_Medio |-> FAbs(FRound(FMean(Column(g, "Valor")), 2)),
          Maior_Gasto |-> FAbs(FRound(SortDesc(Column(g, "Valor"))[Len(g)], 2)),
          Primeira_Transacao |-> DateMin(g),
          Ultima_Transacao |-> DateMax(g),
          Dias_Ativos |-> FromInt(Cardinality(Unique(Column(g, "Data")))),
          Categoria_Principal |-> Mode(g) ]

\* lines 312-317: the row of entradas_estabelecimento for one establishment
EntradasEstabelecimentoRow(rows, key) ==
    LET g == GroupOf(rows, key)
    IN  [ Estabelecimento |-> key,
          Qtd_Transacoes |-> FromInt(Len(g)),
          Valor_Total |-> FRound(FSum(Column(g, "Valor")), 2),
          Valor_Medio |-> FRound(FMean(Column(g, "Valor")), 2),
          Primeira_Transacao |-> DateMin(g),
          Ultima_Transacao |-> DateMax(g) ]

\* lines 295-307: gastos_estabelecimento, one row for each establishment
GastosEstabelecimento(df) ==
    LET keys == SortedKeys(Unique(Column(SaidasOf(df), "Estabelecimento")))
    IN  [k \in DOMAIN keys |-> GastosEstabelecimentoRow(SaidasOf(df), keys[k])]

\* mutation: the establishments of a single day are kept as well
Recorrentes_AnyDay(df) ==
    LET kept == GastosEstabelecimento(df)
    IN  SortRowsDesc(
            [i \in DOMAIN kept |->
                [c \in DOMAIN kept[i] \cup {"Gasto_Medio_Por_Dia"} |->
                    IF c = "Gasto_Medio_Por_Dia"
                    THEN FDiv(kept[i].Valor_Total, kept[i].Dias_Ativos) ELSE kept[i][c]]],
            "Valor_Total")

\* lines 321-323: the establishments of two days or more, with the column
\* Gasto_Medio_Por_Dia, by Valor_Total descending
Recorrentes(df) ==
    LET kept == SelectSeq(GastosEstabelecimento(df),
                          LAMBDA r : FLessEq(FromInt(2), r.Dias_Ativos))
    IN  SortRowsDesc(
            [i \in DOMAIN kept |->
                [c \in DOMAIN kept[i] \cup {"Gasto_Medio_Por_Dia"} |->
                    IF c = "Gasto_Medio_Por_Dia"
                    THEN FDiv(kept[i].Valor_Total, kept[i].Dias_Ativos) ELSE kept[i][c]]],
            "Valor_Total")

\* lines 290-325: the dict of the three views; the frame is read only and
\* nothing is stored
get_establishment_analysis(df) ==
    LET ek == SortedKeys(Unique(Column(EntradasOf(df), "Estabelecimento")))
    IN  Return(Dict(
        [ gastos |-> DataFrame(SortRowsDesc(GastosEstabelecimento(df), "Valor_Total")),
          entradas |-> DataFrame(SortRowsDesc(
              [k \in DOMAIN ek |-> EntradasEstabelecimentoRow(EntradasOf(df), ek[k])],
              "Valor_Total")),
          recorrentes |-> DataFrame(Recorrentes(df)) ]))

---------------------------------------------------------------------------
(* FinancialDataProcessor.get_temporal_analysis                            *)

\* the dates of a set in ascending order, as groupby sorts its keys
SortedDates(S) ==
    [i \in 1..Cardinality(S) |->
        CHOOSE x \in S : Cardinality({z \in S : z.n < x.n}) = i - 1]

\* the rows of one day
OnDate(rows, date) == SelectSeq(rows, LAMBDA r : r.Data = date)

\* lines 346-349: fluxo_diario, one row for each day in ascending order
FluxoDiario(df) ==
    LET days == SortedDates(Unique(Column(df.rows, "Data")))
    IN  [k \in DOMAIN days |->
            [ Data |-> days[k],
              Saldo_Diario |-> FRound(FSum(Column(OnDate(df.rows, days[k]), "Valor")), 2),
              Qtd_Transacoes |-> FromInt(Len(OnDate(df.rows, days[k]))) ]]

\* line 358: gastos_diarios, the absolute sum of the outflows of each day
\* that has one, in ascending order of the days
GastosDiarios(df) ==
    LET days == SortedDates(Unique(Column(SaidasOf(df), "Data")))
    IN  [k \in DOMAIN days |-> FAbs(FSum(Column(OnDate(SaidasOf(df), days[k]), "Valor")))]

\* line 360: gastos_diarios.iloc[:len(gastos_diarios)//2]
PrimeiraMetade(gastos_diarios) ==
    SubSeq(gastos_diarios, 1, Len(gastos_diarios) \div 2)

\* line 361: gastos_diarios.iloc[len(gastos_diarios)//2:]
SegundaMetade(gastos_diarios) ==
    SubSeq(gastos_diarios, Len(gastos_diarios) \div 2 + 1, Len(gastos_diarios))

\* lines 360-368: the entry 'tendencia_gastos'
TendenciaGastos(gastos_diarios) ==
    LET primeira_metade == FMean(PrimeiraMetade(gastos_diarios))
        segunda_metade == FMean(SegundaMetade(gastos_diarios))
        tendencia == IF FPos(primeira_metade)
                     THEN FMul(FDiv(FSub(segunda_metade, primeira_metade), primeira_metade),
                               FromInt(100))
                     ELSE Zero
    IN  Dict([ primeira_metade |-> primeira_metade,
               segunda_metade |-> segunda_metade,
               variacao_percentual |-> tendencia,
               direcao |-> IF FPos(tendencia) THEN Str("Crescente") ELSE Str("Decrescente") ])

\* lines 327-370: the entries 'diario' and 'tendencia_gastos' of the dict
\* returned, the second only for two days or more with a row and three days
\* or more with an outflow.  The entries 'dia_semana', 'mes' and
\* 'top_dias_movimento' (lines 332-343 and 353-354) are other groupings of
\* the same frame, raise nothing and are left out.  The key 'direção' is
\* written direcao.  The frame is read only and nothing is stored.
get_temporal_analysis(df) ==
    IF Len(FluxoDiario(df)) > 1 /\ Len(GastosDiarios(df)) > 2
    THEN Return(Dict([ diario |-> DataFrame(FluxoDiario(df)),
                       tendencia_gastos |-> TendenciaGastos(GastosDiarios(df)) ]))
    ELSE Return(Dict([ diario |-> DataFrame(FluxoDiario(df)) ]))

---------------------------------------------------------------------------
(* FinancialDataProcessor.generate_recommendations                         *)

\* an f-string: its text with a mark for each value, and the values as the
\* format rounds them ({:.1f} to one decimal, {:.2f} to two, {} as it is)
Format(text, values) == [t |-> "fstr", text |-> text, values |-> values]

\* one recommendation
Item(titulo, descricao, acao) ==
    [titulo |-> Str(titulo), descricao |-> descricao, acao |-> Str(acao)]

\* max(15, x): x when x > 15, else 15
Max15(x) == IF FLess(FromInt(15), x) THEN x ELSE FromInt(15)

\* mutation: the low savings rate is tested with <= 10
LowSavings_Inclusive(taxa) == FLessEq(Zero, taxa) /\ FLessEq(taxa, FromInt(10))

\* line 452: 0 <= taxa_poupanca < 10
LowSavings(taxa) == FLessEq(Zero, taxa) /\ FLess(taxa, FromInt(10))

\* lines 427-492: the dict returned; get_establishment_analysis(df) is
\* called for its view 'recorrentes'; indicators and df are read only and
\* nothing is stored
generate_recommendations(indicators, df) ==
    LET ind == indicators.items
        recorrentes == get_establishment_analysis(df).v.items.recorrentes.rows
    IN  Return(Dict(
        [ urgentes |-> List(
              (IF FLess(ind.taxa_poupanca, Zero)
               THEN << Item("Saldo Negativo Crítico",
                            Format("Taxa de poupança em {:.1f}%. Gastos superam entradas.",
                                   <<FRound(ind.taxa_poupanca, 1)>>),
                            "Revisar imediatamente todos os gastos não essenciais") >>
               ELSE <<>>)
              \o
              (IF FLess(FromInt(70), ind.concentracao_top5_gastos)
               THEN << Item("Gastos Altamente Concentrados",
                            Format("{:.1f}% dos gastos em apenas 5 transações.",
                                   <<FRound(ind.concentracao_top5_gastos, 1)>>),
                            "Diversificar e reduzir gastos principais") >>
               ELSE <<>>)),
          importantes |-> List(
              (IF LowSavings(ind.taxa_poupanca)
               THEN << Item("Taxa de Poupança Baixa",
                            Format("Taxa atual de {:.1f}%, abaixo do recomendado (15-20%).",
                                   <<FRound(ind.taxa_poupanca, 1)>>),
                            "Estabelecer meta de redução de gastos em 10-15%") >>
               ELSE <<>>)
              \o
              (IF FLess(FromInt(200), ind.ticket_medio_gasto)
               THEN << Item("Ticket Médio Alto",
                            Format("Gasto médio por transação: R$ {:.2f}",
                                   <<FRound(ind.ticket_medio_gasto, 2)>>),
                            "Considerar compras menores e mais frequentes") >>
               ELSE <<>>)
              \o
              (IF Len(recorrentes) > 0
               THEN << Item("Gasto Recorrente Principal",
                            Format("{}: R$ {:.2f} em {} dias",
                                   << recorrentes[1].Estabelecimento,
                                      FRound(recorrentes[1].Valor_Total, 2),
                                      recorrentes[1].Dias_Ativos >>),
                            "Renegociar ou buscar alternativa mais econômica") >>
               ELSE <<>>)),
          sugestoes |-> List(
              IF FLess(FromInt(20), ind.estabelecimentos_unicos)
              THEN << Item("Boa Diversificação",
                           Format("Você utiliza {} estabelecimentos diferentes.",
                                  <<ind.estabelecimentos_unicos>>),
                           "Manter diversificação, mas focar nos mais econômicos") >>
              ELSE <<>>),
          metas |-> Dict(
              [ taxa_poupanca_objetivo |-> Max15(FAdd(ind.taxa_poupanca, FromInt(5))),
                reducao_gasto_diario |-> FMul(ind.gasto_medio_diario, Fin(9, 1)),
                limite_ticket_medio |-> FMul(ind.ticket_medio_gasto, Fin(85, 2)),
                meta_economia_mensal |->
                    FMul(FMul(ind.gasto_medio_diario, FromInt(30)), Fin(1, 1)) ]) ]))

---------------------------------------------------------------------------
(* The classifiers called on one description.                              *)

Vocabulary == {"PIX", "RECEBIDO", "ENVIADO", "TED", "Maria", "MINI", "EXTRA", "Uber"}

\* every description of at most n words of Vocabulary, single-spaced
RECURSIVE PhrasesUpTo(_)
PhrasesUpTo(n) ==
    IF n = 0 THEN {""}
    ELSE LET S == PhrasesUpTo(n - 1)
         IN  S \cup {IF s = "" THEN w ELSE s \o " " \o w : s \in S, w \in Vocabulary}

\* descriptions as bank statements and the generator write them
SampleDescriptions ==
    {"PIX RECEBIDO Maria Souza", "PIX ENVIADO Joao da Silva", "pix recebido  maria souza",
     "PIX Recebido - Maria Souza", "TED Recebido - Joao Oliveira",
     "TED RECEBIDA Joao Oliveira", "PAGAMENTO CARTAO CREDITO", "CARTAO CREDITO VISA",
     "PAGAMENTO DE BOLETO ACME LTDA", "PAGAMENTO DE BOLETO",
     "COMPRA CARTAO DEB MC 12/03 MINI EXTRA CENTRO", "COMPRA CARTAO DEB MC LOJA",
     "LIQUIDO DE VENCIMENTO EMPRESA ABC", "Uber Trip", "Uber Viagem", "99 App",
     "Salary Payment", "Supermercado Dia", "Lojas Renner", "SAQUE 24H",
     "DOC BANCO BOLETO", "ESTORNO IOF", "  Aluguel  ", " ",
     "DEB AUT 0001 Academia Smart Fit", " Tarifa  Pacote Mensal  Conta Corrente "}

Descriptions == PhrasesUpTo(MaxWords) \cup SampleDescriptions

DescriptionInputs == {NoneV} \cup {Str(s) : s \in Descriptions}

InitClassify ==
    /\ call = ""
    /\ arg \in DescriptionInputs
    /\ ret = NoCall
    /\ Constructed

CategorizeOperation ==
    /\ call = ""
    /\ call' = "categorize_operation"
    /\ ret' = categorize_operation(arg)
    /\ UNCHANGED <<screen, arg, df_processed, analysis_results>>

CategorizeEstablishment ==
    /\ call = ""
    /\ call' = "categorize_establishment"
    /\ ret' = categorize_establishment(arg)
    /\ UNCHANGED <<screen, arg, df_processed, analysis_results>>

ExtractEstablishmentName ==
    /\ call = ""
    /\ call' = "extract_establishment_name"
    /\ ret' = extract_establishment_name(arg)
    /\ UNCHANGED <<screen, arg, df_processed, analysis_results>>

NextClassify ==
    \/ CategorizeOperation
    \/ CategorizeEstablishment
    \/ ExtractEstablishmentName

SpecClassify == InitClassify /\ [][NextClassify]_vars

---------------------------------------------------------------------------
(* The normaliser called on one dataset.                                   *)

Row(Data, Descricao, Entradas, Saidas, Saldo) ==
    [Data |-> Data, Descricao |-> Descricao, Entradas |-> Entradas,
     Saidas |-> Saidas, Saldo |-> Saldo]

\* rows of a statement: numeric and text amounts, a date shared by two rows,
\* dates that do not parse, amounts that are no number
SampleRows ==
    { Row(Str("01/01/2023"), Str("Salary Payment"), Fin(6800, 0), Zero, Fin(6800, 0)),
      Row(Str("02/01/2023"), Str("Uber Trip"), Zero, Fin(-25, 0), Fin(6775, 0)),
      Row(Str("05/01/2023"), Str("Uber Trip"), Zero, Fin(-30, 0), Fin(6745, 0)),
      Row(Str("02/01/2023"), Str("PIX RECEBIDO Maria Souza"), Str("R$ 50,00"), Str(""),
          Str("6825,00")),
      Row(Str("31/02/2023"), Str("Lojas Renner"), Str("0"), Str("-10,00"), NoneV),
      Row(NoneV, Str("SAQUE 24H"), NoneV, Str("-100,00"), NoneV),
      Row(Str("03/01/2023"), Str("COMPRA CARTAO DEB MC 12/03 MINI EXTRA CENTRO"), Str(""),
          Str("-1.234,56"), NoneV),
      Row(Str("04/01/2023"), Str("ESTORNO IOF"), Str("inf"), Str(""), NoneV),
      Row(Str("04/01/2023"), Str("DOC BANCO BOLETO"), PosInf, NegInf, NoneV),
      Row(Str("06/01/2023"), NoneV, Str(""), Str("-"), Str("6745,00")) }

\* every dataset of at most MaxRows rows of SampleRows, in every order
Datasets ==
    {DataFrame(rows) : rows \in UNION {[1..n -> SampleRows] : n \in 0..MaxRows}}

InitNormalize ==
    /\ call = ""
    /\ arg \in Datasets
    /\ ret = NoCall
    /\ Constructed

\* lines 146-184; df.copy() leaves the argument as it was, and a raise
\* leaves self.df_processed as it was
ProcessDataframe ==
    /\ call = ""
    /\ call' = "process_dataframe"
    /\ ret' = process_dataframe(arg)
    /\ df_processed' = IF ret'.k = "return" THEN ret'.v ELSE df_processed
    /\ UNCHANGED <<screen, arg, analysis_results>>

NextNormalize == ProcessDataframe

SpecNormalize == InitNormalize /\ [][NextNormalize]_vars

---------------------------------------------------------------------------
(* The analyses called on one normalised dataset.                          *)

\* a statement: the three rows of the scenario of the specification, a second
\* inflow, outflows at six establishments, an amount of zero, an infinite
\* inflow and an infinite outflow; dates out of order, shared and with gaps
StatementA ==
    << Row(Str("01/01/2023"), Str("Salary Payment"), Fin(6800, 0), Zero, Fin(6800, 0)),
       Row(Str("02/01/2023"), Str("Uber Trip"), Zero, Fin(-25, 0), Fin(6775, 0)),
       Row(Str("05/01/2023"), Str("Uber Trip"), Zero, Fin(-30, 0), Fin(6745, 0)),
       Row(Str("02/01/2023"), Str("PIX RECEBIDO Maria Souza"), Str("R$ 50,00"), Str(""),
           Str("6825,00")),
       Row(Str("03/01/2023"), Str("Supermercado Dia"), Str(""), Str("-1,00"), NoneV),
       Row(Str("10/01/2023"), Str("Lojas Renner"), Str("0"), Str("-2,00"), NoneV),
       Row(Str("05/01/2023"), Str("SAQUE 24H"), NoneV, Str("-100,00"), NoneV),
       Row(Str("07/01/2023"), Str("99 App"), Zero, Fin(-3, 0), NoneV),
       Row(Str("06/01/2023"), NoneV, Str(""), Str("-"), Str("6745,00")),
       Row(Str("04/01/2023"), Str("ESTORNO IOF"), Str("inf"), Str(""), NoneV),
       Row(Str("04/01/2023"), Str("DOC BANCO BOLETO"), Str(""), Str("-inf"), NoneV) >>

\* a statement with amounts of three decimals, over the end of a year and
\* of a February of 29 days
StatementB ==
    << Row(Str("30/12/2023"), Str("Uber Viagem"), Str(""), Str("-0,004"), NoneV),
       Row(Str("01/03/2024"), Str("Supermercado Dia"), Str(""), Str("-0,004"), NoneV),
       Row(Str("02/01/2024"), Str("Salary Payment"), Str("0,005"), Str(""), NoneV) >>

\* the rows of a sequence at the positions of I, in their order
RECURSIVE RowsAt(_, _)
RowsAt(rows, I) ==
    IF I = {} THEN <<>>
    ELSE LET i == CHOOSE x \in I : \A y \in I : x >= y
         IN  Append(RowsAt(rows, I \ {i}), rows[i])

\* the normalised datasets process_dataframe returns for the statements
DatasetA == process_dataframe(DataFrame(StatementA)).v
DatasetB == process_dataframe(DataFrame(StatementB)).v

\* the filtered views of a dataset of at most MaxViewRows rows: new frames of
\* some of its rows, the view with no row among them
Views(df) ==
    {DataFrame(RowsAt(df.rows, I)) :
        I \in {J \in SUBSET DOMAIN df.rows : Cardinality(J) <= MaxViewRows}}

\* the normalised datasets analysed
AnalysisDatasets == Views(DatasetA) \cup Views(DatasetB)

InitAnalyze ==
    /\ call = ""
    /\ arg \in AnalysisDatasets
    /\ ret = NoCall
    /\ Constructed

\* lines 186-261
CalculateIndicators ==
    /\ call = ""
    /\ call' = "calculate_indicators"
    /\ ret' = calculate_indicators(arg)
    /\ analysis_results' = ret'.v
    /\ UNCHANGED <<screen, arg, df_processed>>

\* lines 263-288
GetCategoryAnalysis ==
    /\ call = ""
    /\ call' = "get_category_analysis"
    /\ ret' = get_category_analysis(arg)
    /\ UNCHANGED <<screen, arg, df_processed, analysis_results>>

\* lines 372-425
DetectAnomalies ==
    /\ call = ""
    /\ call' = "detect_anomalies"
    /\ ret' = detect_anomalies(arg)
    /\ UNCHANGED <<screen, arg, df_processed, analysis_results>>

NextAnalyze ==
    \/ CalculateIndicators
    \/ GetCategoryAnalysis
    \/ DetectAnomalies

SpecAnalyze == InitAnalyze /\ [][NextAnalyze]_vars

---------------------------------------------------------------------------
(* A session: calls on one processor, one after the other.                 *)

\* the three raw rows of the scenario of the specification
Scenario == DataFrame(SubSeq(StatementA, 1, 3))

\* the normalised dataset of the scenario
ScenarioDataset == process_dataframe(Scenario).v

\* the raw datasets of a session: the scenario, a statement of six outflows,
\* a statement of small amounts, no row at all, and a row whose amount does
\* not parse
SessionRaw ==
    { Scenario,
      DataFrame(SubSeq(StatementA, 2, 8)),
      DataFrame(StatementB),
      DataFrame(<<>>),
      DataFrame(<< Row(Str("03/01/2023"), Str("COMPRA CARTAO DEB MC 12/03 MINI EXTRA CENTRO"),
                       Str(""), Str("-1.234,56"), NoneV) >>) }

\* whether a frame has the columns process_dataframe adds
IsNormalised(df) == \A i \in DOMAIN df.rows : "Valor" \in DOMAIN df.rows[i]

\* whether a frame is one that process_dataframe is called on
IsRaw(df) == \A i \in DOMAIN df.rows : "Valor" \notin DOMAIN df.rows[i]

InitSession ==
    /\ call = ""
    /\ arg \in SessionRaw
    /\ ret = NoCall
    /\ Constructed

\* the caller takes the dataset of its next call: a raw dataset, the dataset
\* of the call before, or the frame process_dataframe has just returned; the
\* processor keeps what the calls before stored on it
NextCall ==
    /\ call # ""
    /\ call' = ""
    /\ arg' \in SessionRaw \cup {arg} \cup
                 (IF call = "process_dataframe" /\ ret.k = "return" THEN {ret.v} ELSE {})
    /\ ret' = NoCall
    /\ UNCHANGED <<screen, df_processed, analysis_results>>

\* process_dataframe is called on raw datasets, the analyses on normalised
\* ones
NextSession ==
    \/ NextCall
    \/ (IsRaw(arg) /\ ProcessDataframe)
    \/ (IsNormalised(arg) /\ CalculateIndicators)
    \/ (IsNormalised(arg) /\ GetCategoryAnalysis)
    \/ (IsNormalised(arg) /\ DetectAnomalies)

SpecSession == InitSession /\ [][NextSession]_vars

---------------------------------------------------------------------------
(* The reports called on one normalised dataset.                           *)

\* a statement of six transport outflows, five alike and one far greater;
\* an establishment on two days, one twice on a single day, one on one day;
\* two inflows, one smaller and one greater than the outflows around it
StatementC ==
    << Row(Str("01/02/2023"), Str("Uber Trip"), Zero, Fin(-10, 0), NoneV),
       Row(Str("01/02/2023"), Str("Uber Viagem"), Zero, Fin(-10, 0), NoneV),
       Row(Str("02/02/2023"), Str("99 App"), Zero, Fin(-10, 0), NoneV),
       Row(Str("01/02/2023"), Str("Uber Viagem"), Str(""), Str("-10,00"), NoneV),
       Row(Str("04/02/2023"), Str("99 App"), Zero, Fin(-10, 0), NoneV),
       Row(Str("05/02/2023"), Str("Uber Trip"), Zero, Fin(-300, 0), NoneV),
       Row(Str("03/02/2023"), Str("Salary Payment"), Fin(100, 0), Zero, NoneV),
       Row(Str("06/02/2023"), Str("Supermercado Dia"), Zero, Fin(-20, 0), NoneV),
       Row(Str("02/02/2023"), Str("PIX RECEBIDO Maria Souza"), Str("R$ 350,00"), Str(""),
           NoneV) >>

\* the days of a month as statements write them
DayText ==
    << "01", "02", "03", "04", "05", "06", "07", "08", "09", "10",
       "11", "12", "13", "14", "15", "16", "17", "18", "19", "20" >>

\* the scenario of the specification: twenty outflows of one category on
\* twenty days, one of -5000 among nineteen of about -50
StatementD ==
    [i \in 1..20 |->
        Row(Str(DayText[i] \o "/03/2023"), Str("Uber Trip"), Zero,
            IF i = 12 THEN Fin(-5000, 0)
            ELSE IF i \in {7, 15} THEN Fin(-45, 0) ELSE Fin(-50, 0),
            NoneV)]

DatasetC == process_dataframe(DataFrame(StatementC)).v
DatasetD == process_dataframe(DataFrame(StatementD)).v

\* the normalised datasets reported on
ReportDatasets == Views(DatasetC) \cup {DatasetD}

\* the arguments of generate_recommendations
Args(indicators, df) == [t |-> "args", indicators |-> indicators, df |-> df]

\* indicators as calculate_indicators returns them for longer statements:
\* those of df with values below, at and above each threshold
ThresholdIndicators(df) ==
    { Dict([calculate_indicators(df).v.items EXCEPT
               !.taxa_poupanca = a,
               !.concentracao_top5_gastos = b,
               !.ticket_medio_gasto = c,
               !.estabelecimentos_unicos = d]) :
        a \in {Fin(-1, 1), Zero, Fin(99, 1), FromInt(10), FromInt(25), NaN},
        b \in {Zero, FromInt(70), Fin(701, 1)},
        c \in {FromInt(200), Fin(20001, 2)},
        d \in {FromInt(20), FromInt(21)} }

\* the calls of generate_recommendations: with the indicators of the dataset
\* itself, as the pipeline makes them, and with indicators at the thresholds
RecommendArgs ==
    {Args(calculate_indicators(df).v, df) : df \in ReportDatasets}
    \cup UNION {{Args(ind, df) : ind \in ThresholdIndicators(df)} :
                   df \in {DataFrame(<<>>), DataFrame(SubSeq(DatasetC.rows, 1, 5))}}

InitReport ==
    /\ call = ""
    /\ arg \in ReportDatasets \cup RecommendArgs
    /\ ret = NoCall
    /\ Constructed

\* lines 290-325
GetEstablishmentAnalysis ==
    /\ call = ""
    /\ call' = "get_establishment_analysis"
    /\ ret' = get_establishment_analysis(arg)
    /\ UNCHANGED <<screen, arg, df_processed, analysis_results>>

\* lines 327-370
GetTemporalAnalysis ==
    /\ call = ""
    /\ call' = "get_temporal_analysis"
    /\ ret' = get_temporal_analysis(arg)
    /\ UNCHANGED <<screen, arg, df_processed, analysis_results>>

\* lines 427-492
GenerateRecommendations ==
    /\ call = ""
    /\ call' = "generate_recommendations"
    /\ ret' = generate_recommendations(arg.indicators, arg.df)
    /\ UNCHANGED <<screen, arg, df_processed, analysis_results>>

\* the views and detect_anomalies take a dataset, generate_recommendations
\* takes indicators and a dataset
NextReport ==
    \/ (arg.t = "df" /\ GetEstablishmentAnalysis)
    \/ (arg.t = "df" /\ GetTemporalAnalysis)
    \/ (arg.t = "df" /\ DetectAnomalies)
    \/ (arg.t = "args" /\ GenerateRecommendations)

SpecReport == InitReport /\ [][NextReport]_vars

---------------------------------------------------------------------------
(* app.py: load_and_process_data                                           *)

\* c.lower() for one character
LowerChar(c) ==
    LET I == {i \in 1..Len(UpperLetters) : Char(UpperLetters, i) = c}
    IN  IF I = {} THEN c ELSE Char(LowerLetters, CHOOSE i \in I : TRUE)

\* s[i:].lower() with a 0-based Python index i
RECURSIVE LowerFrom(_, _)
LowerFrom(s, i) ==
    IF i >= Len(s) THEN "" ELSE LowerChar(Char(s, i + 1)) \o LowerFrom(s, i + 1)

\* s.lower()
Lower(s) == LowerFrom(s, 0)

\* s.split('.')[-1]: what follows the last "." of s, s when it has none
LastField(s) ==
    LET dots == {i \in 1..Len(s) : Char(s, i) = "."}
    IN  IF dots = {} THEN s
        ELSE SubSeq(s, (CHOOSE i \in dots : \A j \in dots : j <= i) + 1, Len(s))

\* s.endswith(p)
EndsWith(s, p) == Len(p) <= Len(s) /\ SubSeq(s, Len(s) - Len(p) + 1, Len(s)) = p

\* the table pd.read_csv or pd.read_excel gives: the column names in order
\* and the rows, each a function from the column names to a text cell or a
\* null
Table(columns, rows) == [columns |-> columns, rows |-> rows]

\* an uploaded file: its name, whether pd.ExcelFile opens it, the sheet names
\* of a workbook (none for a CSV file), whether pd.read_csv / pd.read_excel
\* reads it, and the table of each sheet (the one table of a CSV file)
UploadedFile(name, opens, sheet_names, reads, tables) ==
    [t |-> "file", name |-> name, opens |-> opens, sheet_names |-> sheet_names,
     reads |-> reads, tables |-> tables]

\* lines 39-51: what the reader gives for the sheet asked for
TableOf(uploaded_file, sheet_name) ==
    IF sheet_name = NoneV THEN uploaded_file.tables[1]
    ELSE uploaded_file.tables[CHOOSE i \in DOMAIN uploaded_file.sheet_names :
                                   uploaded_file.sheet_names[i] = sheet_name.s]

\* one st.* call: the function called and its text, a format and the values
\* it is filled with (the format is written without the emoji it starts
\* with, and the text of an exception is "")
Shown(fn, text) == [fn |-> fn, text |-> text]

\* what load_and_process_data returns and what it shows
Loaded(v, shown) == [v |-> v, shown |-> shown]

\* the frame load_and_process_data returns: its columns and its rows
Frame(columns, rows) == [t |-> "frame", columns |-> columns, rows |-> rows]

\* df.empty: a table or a frame with no row (one with no column has no row)
Empty(df) == df.rows = <<>>

\* the loops "for col in names: if col in df.columns: ... break": the first
\* of the names that is a column, "" when none is
FirstColumn(names, columns) ==
    LET I == {i \in DOMAIN names : names[i] \in columns}
    IN  IF I = {} THEN "" ELSE names[CHOOSE i \in I : \A j \in I : i <= j]

possible_date_columns ==
    <<"Data", "DATE", "data", "Data Movimentação", "Data da Transação">>

possible_numeric_columns ==
    [ Entradas |-> <<"Entradas", "Entrada", "Crédito", "Credito", "Credit", "Receita">>,
      Saidas |-> <<"Saidas", "Saída", "Saídas", "Débito", "Debito", "Debit", "Despesa">>,
      Saldo |-> <<"Saldo", "Balance", "Saldo Final", "Saldo Atual">> ]

description_columns ==
    <<"Descrição", "Descricao", "Description", "Histórico", "Historico", "Memo">>

type_columns ==
    <<"Tipo", "Type", "Categoria", "Category", "Classificação", "Classificacao">>

\* lines 130-136 on one cell: astype(str), the five str.replace calls,
\* pd.to_numeric(errors='coerce') and fillna(0). The cells of the model hold
\* no "$", for which str.replace depends on the pandas version.
ToNumeric(cell) ==
    LET text == IF cell = NoneV THEN "nan" ELSE cell.s
        cleaned == Replace(Replace(Replace(Replace(Replace(text,
                       "R$", ""), "$", ""), " ", ""), ".", ""), ",", ".")
        r == IF cleaned = "" THEN Raise("ValueError") ELSE PyFloat(cleaned)
    IN  IF r.k = "return" /\ ~IsNa(r.v) THEN r.v ELSE Zero

\* line 166: sort_values('Data') of rows that all have a date; rows of one
\* date keep their order
SortByData(rows) ==
    LET Before(i, j) ==
            \/ rows[i].Data.n < rows[j].Data.n
            \/ rows[i].Data.n = rows[j].Data.n /\ i < j
    IN  [k \in DOMAIN rows |->
            rows[CHOOSE i \in DOMAIN rows :
                     Cardinality({j \in DOMAIN rows : Before(j, i)}) = k - 1]]

\* lines 71-164: the columns of the frame and its rows before the rows
\* without a date are dropped. The date cells of the model are
\* day/month/year text, or text that no format and no parser reads as a
\* date.
ConvertTable(df) ==
    LET named == {df.columns[i] : i \in DOMAIN df.columns}
        columns == {c \in named : ~Contains(Lower(c), "unnamed")}
        date_column == FirstColumn(possible_date_columns, columns)
        found == [target \in DOMAIN possible_numeric_columns |->
                     FirstColumn(possible_numeric_columns[target], columns)]
        desc_col == IF "Descrição" \in columns THEN "Descrição"
                    ELSE FirstColumn(description_columns, columns)
        type_col == IF "Tipo" \in columns THEN "Tipo"
                    ELSE FirstColumn(type_columns, columns)
    IN  [ columns |-> columns,
          date_column |-> date_column,
          found |-> found,
          desc_col |-> desc_col,
          type_col |-> type_col,
          rows |-> SelectSeq(df.rows, LAMBDA r : \E c \in columns : r[c] # NoneV) ]

\* the columns load_and_process_data leaves in the frame
FrameColumns(t) ==
    LET targets == {target \in DOMAIN t.found : t.found[target] # ""}
    IN  (t.columns \ ({t.date_column, t.desc_col, t.type_col}
                          \cup {t.found[target] : target \in targets}))
            \cup {"Data"} \cup targets
            \cup (IF {"Entradas", "Saidas"} \subseteq targets
                  THEN {"Valor_Liquido", "Valor_Total_Transacionado"} ELSE {})
            \cup (IF t.desc_col # "" THEN {"Descrição"} ELSE {})
            \cup (IF t.type_col # "" THEN {"Tipo"} ELSE {})

\* one cell of the frame: lines 88-101 for Data, 130-136 for the amounts
\* (given here as numeric), 162-163 for the two sums
FrameCell(t, r, c, numeric) ==
    IF c = "Data" THEN to_datetime(r[t.date_column])
    ELSE IF c \in DOMAIN possible_numeric_columns THEN numeric[c]
    ELSE IF c = "Valor_Liquido" THEN FAdd(numeric.Entradas, numeric.Saidas)
    ELSE IF c = "Valor_Total_Transacionado"
         THEN FAdd(numeric.Entradas, FAbs(numeric.Saidas))
    ELSE IF c = "Descrição" THEN r[t.desc_col]
    ELSE IF c = "Tipo" THEN r[t.type_col]
    ELSE r[c]

\* the rows of the frame before line 106 drops those without a date
FrameRows(t) ==
    [i \in DOMAIN t.rows |->
        [c \in FrameColumns(t) |->
            FrameCell(t, t.rows[i], c,
                      [target \in DOMAIN t.found |->
                          IF t.found[target] = "" THEN Zero
                          ELSE ToNumeric(t.rows[i][t.found[target]])])]]

\* lines 65-170: what load_and_process_data returns and shows for a table
\* that is not empty, given its columns t and its rows with a date
Finish(df, file_type, t, dated) ==
    LET invalid_dates == Len(t.rows) - Len(dated)
        missing == SelectSeq(<<"Entradas", "Saidas", "Saldo">>,
                             LAMBDA target : t.found[target] = "")
        loaded ==
            <<Shown("st.sidebar.success", Format("Arquivo {} carregado com sucesso!",
                                                 <<Str(Upper(file_type))>>)),
              Shown("st.sidebar.info",
                    Format("Colunas encontradas: {}",
                           <<List([i \in DOMAIN df.columns |-> Str(df.columns[i])])>>)),
              Shown("st.sidebar.info",
                    Format("Total de linhas: {}", <<FromInt(Len(df.rows))>>))>>
    IN  IF t.date_column = ""
        THEN Loaded(NoneV, loaded \o <<Shown("st.error", Format("Coluna de data não encontrada.", <<>>))>>)
        ELSE Loaded(Frame(FrameColumns(t), SortByData(dated)),
                 loaded
                 \o (IF Len(dated) > 0
                     THEN <<Shown("st.sidebar.info",
                                  Format("Formato de data detectado: {}",
                                         <<Str("%d/%m/%Y")>>))>>
                     ELSE <<>>)
                 \o (IF invalid_dates > 0
                     THEN <<Shown("st.warning",
                                  Format("{} linha(s) com datas inválidas foram removidas.",
                                         <<FromInt(invalid_dates)>>))>>
                     ELSE <<>>)
                 \o [i \in DOMAIN missing |->
                        Shown("st.warning",
                              Format("Coluna '{}' não encontrada automaticamente.",
                                     <<Str(missing[i])>>))]
                 \o <<Shown("st.sidebar.success",
                            Format("Processamento concluído: {} transações válidas!",
                                   <<FromInt(Len(dated))>>))>>)

\* line 106: dropna(subset=['Data'])
Dated(t) ==
    IF t.date_column = "" THEN <<>>
    ELSE SelectSeq(FrameRows(t), LAMBDA r : ~IsNa(r.Data))

ProcessTable(df, file_type, t) == Finish(df, file_type, t, Dated(t))

\* the value load_and_process_data returns and the messages it shows
load_and_process_data(uploaded_file, sheet_name) ==
    LET file_type == LastField(Lower(uploaded_file.name))
        df == TableOf(uploaded_file, sheet_name)
    IN  IF file_type = "csv" /\ ~uploaded_file.reads
        THEN Loaded(NoneV,
                 <<Shown("st.error", Format("Erro ao processar o arquivo: {}", <<Str("")>>)),
                   Shown("st.error",
                         Format("Verifique se o arquivo está no formato correto e tente novamente.", <<>>))>>)
        ELSE IF file_type \in {"xls", "xlsx"} /\ ~uploaded_file.reads
        THEN Loaded(NoneV, <<Shown("st.error", Format("Erro ao ler arquivo Excel: {}", <<Str("")>>))>>)
        ELSE IF file_type \notin {"csv", "xls", "xlsx"}
        THEN Loaded(NoneV, <<Shown("st.error",
                                   Format("Formato de arquivo não suportado: {}",
                                          <<Str(file_type)>>))>>)
        ELSE IF Empty(df)
        THEN Loaded(NoneV, <<Shown("st.error", Format("O arquivo está vazio.", <<>>))>>)
        ELSE ProcessTable(df, file_type, ConvertTable(df))

---------------------------------------------------------------------------
(* app.py: filter_data and main                                            *)

\* a tuple of Python
Tuple(items) == [t |-> "tuple", items |-> items]

\* the value filter_data returns; its argument date_range, here period, is
\* None or a pair of dates
filter_data(df, filter_type, transaction_types, period) ==
    LET InRange(r) ==
            period = NoneV
                \/ (r.Data.n >= period.items[1].n /\ r.Data.n <= period.items[2].n)
        OfType(r) ==
            IF filter_type = "Entradas" THEN FLess(Zero, r.Entradas)
            ELSE IF filter_type = "Saídas" THEN FLess(r.Saidas, Zero)
            ELSE TRUE
        Selected(r) ==
            transaction_types = {} \/ "Tipo" \notin df.columns
                \/ r.Tipo \in transaction_types
    IN  Frame(df.columns,
              SelectSeq(df.rows, LAMBDA r : InRange(r) /\ OfType(r) /\ Selected(r)))

\* lines 495-513: what st.sidebar.date_input can give for a frame that has
\* rows: a pair of dates between the first and the last date, or None when
\* one date only is picked
DateRanges(df) ==
    LET dates == {df.rows[i].Data : i \in DOMAIN df.rows}
    IN  {NoneV} \cup {Tuple(<<a, b>>) : a \in dates, b \in dates}

\* lines 516-520: the choices of st.sidebar.radio
FilterTypes == {"Todas as Transações", "Entradas", "Saídas"}

\* lines 523-531: what st.sidebar.multiselect can give: the types of the
\* column Tipo that the user leaves selected, [] without that column
TransactionTypes(df) ==
    IF "Tipo" \in df.columns
    THEN SUBSET {df.rows[i].Tipo : i \in {j \in DOMAIN df.rows : df.rows[j].Tipo # NoneV}}
    ELSE {{}}

\* lines 412-457: main up to the file uploader; without a file it shows the
\* instructions and returns
FileUploader ==
    /\ call = ""
    /\ call' = "st.sidebar.file_uploader"
    /\ IF arg = NoneV
       THEN /\ screen' = screen \o
                   <<Shown("st.markdown", Format("Como usar este aplicativo:", <<>>))>>
            /\ ret' = Return(NoneV)
       ELSE UNCHANGED <<screen, ret>>
    /\ UNCHANGED <<arg, df_processed, analysis_results>>

\* line 463
IsWorkbook(uploaded_file) ==
    \E x \in {"xls", "xlsx"} : EndsWith(Lower(uploaded_file.name), x)

\* lines 462-478: the sheets selected_sheet can be: None for a CSV file, the
\* one sheet of a workbook, or the sheet the user selects
SelectedSheets(uploaded_file) ==
    IF IsWorkbook(uploaded_file)
    THEN {Str(uploaded_file.sheet_names[i]) : i \in DOMAIN uploaded_file.sheet_names}
    ELSE {NoneV}

\* lines 470-471: the sheets of a workbook that has several
SheetsFound(uploaded_file) ==
    IF IsWorkbook(uploaded_file) /\ Len(uploaded_file.sheet_names) > 1
    THEN <<Shown("st.sidebar.info",
                 Format("Planilhas encontradas: {}",
                        <<List([j \in DOMAIN uploaded_file.sheet_names |->
                                  Str(uploaded_file.sheet_names[j])])>>))>>
    ELSE <<>>

\* lines 483-485: df_processed = load_and_process_data(...), with what the
\* call shows
Assign(r) ==
    /\ df_processed' = r.v
    /\ screen' = screen \o SheetsFound(arg) \o r.shown

\* lines 460-485: the sheet of a workbook is chosen and the file is loaded;
\* main returns when pd.ExcelFile raises
LoadAndProcessData ==
    /\ call = "st.sidebar.file_uploader"
    /\ ret = NoCall
    /\ call' = "load_and_process_data"
    /\ IF IsWorkbook(arg) /\ ~arg.opens
       THEN /\ screen' = screen \o
                   <<Shown("st.error",
                           Format("Erro ao inspecionar o arquivo Excel: {}", <<Str("")>>))>>
            /\ ret' = Return(NoneV)
            /\ UNCHANGED df_processed
       ELSE /\ \E selected_sheet \in SelectedSheets(arg) :
                  Assign(load_and_process_data(arg, selected_sheet))
            /\ ret' = ret
    /\ UNCHANGED <<arg, analysis_results>>

\* line 487: st.success(f"... {len(df_processed)} ..."); len(None) raises
\* TypeError
ShowSuccess ==
    /\ call = "load_and_process_data"
    /\ ret = NoCall
    /\ call' = "st.success"
    /\ IF df_processed = NoneV
       THEN /\ ret' = Raise("TypeError")
            /\ UNCHANGED screen
       ELSE /\ screen' = screen \o
                   <<Shown("st.success",
                           Format("Arquivo processado com sucesso! {} transações encontradas.",
                                  <<FromInt(Len(df_processed.rows))>>))>>
            /\ ret' = ret
    /\ UNCHANGED <<arg, df_processed, analysis_results>>

\* lines 536-541: the warning for a selection with no row, else the results
Results(df_filtered) ==
    IF Empty(df_filtered)
    THEN <<Shown("st.warning",
                 Format("Nenhuma transação encontrada com os filtros selecionados.", <<>>))>>
    ELSE <<Shown("st.header", Format("Resultados da Análise", <<>>))>>

\* lines 489-627: the filters are read and applied and the results are
\* shown. The local date_range of main, here period, is bound only for a
\* frame that has rows (line 494), so line 534 raises UnboundLocalError for
\* a frame with none. The display of lines 541-627 is the one header here.
ShowResults ==
    /\ call = "st.success"
    /\ ret = NoCall
    /\ call' = "filter_data"
    /\ IF Empty(df_processed)
       THEN /\ ret' = Raise("UnboundLocalError")
            /\ UNCHANGED screen
       ELSE /\ \E period \in DateRanges(df_processed),
                 filter_type \in FilterTypes,
                 transaction_types \in TransactionTypes(df_processed) :
                   screen' = screen \o
                       Results(filter_data(df_processed, filter_type,
                                           transaction_types, period))
            /\ ret' = Return(NoneV)
    /\ UNCHANGED <<arg, df_processed, analysis_results>>

---------------------------------------------------------------------------
(* The application run on one upload.                                      *)

\* one row of a table with the given column names
TableRow(columns, cells) ==
    [c \in {columns[i] : i \in DOMAIN columns} |->
        cells[CHOOSE i \in DOMAIN columns : columns[i] = c]]

\* a statement with the columns of the application's own names
TableA ==
    LET columns == <<"Data", "Descrição", "Entradas", "Saidas", "Tipo">>
    IN  Table(columns,
          <<TableRow(columns, <<Str("05/01/2023"), Str("Uber Trip"), NoneV,
                                Str("-30,00"), Str("Transporte")>>),
            TableRow(columns, <<Str("01/01/2023"), Str("Salary Payment"),
                                Str("6.800,00"), NoneV, Str("Renda")>>),
            TableRow(columns, <<Str("02/01/2023"), Str("Uber Trip"), NoneV,
                                Str("-25,00"), Str("Transporte")>>)>>)

\* a header line and no row
TableHeaderOnly ==
    Table(<<"Data", "Descrição", "Entradas", "Saidas", "Tipo">>, <<>>)

\* no column of possible_date_columns
TableNoDate ==
    LET columns == <<"Dia", "Descrição", "Entradas", "Saidas">>
    IN  Table(columns,
          <<TableRow(columns, <<Str("01/01/2023"), Str("Salary Payment"),
                                Str("6.800,00"), NoneV>>)>>)

\* other names for the columns, an unnamed column, a date that does not
\* exist, a row of nulls and no balance column
TableAliases ==
    LET columns == <<"DATE", "Histórico", "Crédito", "Débito", "Unnamed: 4">>
    IN  Table(columns,
          <<TableRow(columns, <<Str("03/01/2023"), Str("Supermercado Dia"), NoneV,
                                Str("-120,50"), NoneV>>),
            TableRow(columns, <<Str("31/02/2023"), Str("Uber Trip"), NoneV,
                                Str("-25,00"), NoneV>>),
            TableRow(columns, <<NoneV, NoneV, NoneV, NoneV, NoneV>>),
            TableRow(columns, <<Str("02/01/2023"), Str("PIX RECEBIDO"),
                                Str("350,00"), Str("abc"), NoneV>>)>>)

\* no cell of the date column is a date
TableBadDates ==
    LET columns == <<"Data", "Descrição", "Entradas", "Saidas">>
    IN  Table(columns,
          <<TableRow(columns, <<Str("abc"), Str("Uber Trip"), NoneV, Str("-25,00")>>),
            TableRow(columns, <<NoneV, Str("Salary Payment"), Str("6.800,00"), NoneV>>)>>)

\* a blank sheet
TableBlank == Table(<<>>, <<>>)

Tables ==
    {TableA, TableHeaderOnly, TableNoDate, TableAliases, TableBadDates, TableBlank}

\* the uploads: st.sidebar.file_uploader lets through the names that end in
\* .csv, .xls or .xlsx; a workbook has one or two sheets. Every table that
\* has a date column has a column of inflows and one of outflows.
Uploads ==
    {UploadedFile(name, TRUE, <<>>, reads, <<table>>) :
        name \in {"extrato.csv", "Extrato.2023.CSV"}, reads \in BOOLEAN,
        table \in Tables}
    \cup {UploadedFile(name, opens, <<"Plan1">>, reads, <<table>>) :
            name \in {"extrato.xls", "EXTRATO.XLSX"}, opens \in BOOLEAN,
            reads \in BOOLEAN, table \in Tables}
    \cup {UploadedFile("extrato.xlsx", TRUE, <<"Resumo", "Extrato">>, TRUE,
                       <<first, second>>) :
            first \in {TableBlank, TableNoDate}, second \in {TableA, TableBadDates}}

\* main starts with the file the user has uploaded, or with none
InitApp ==
    /\ call = ""
    /\ arg \in Uploads \cup {NoneV}
    /\ ret = NoCall
    /\ Constructed

NextApp ==
    \/ FileUploader
    \/ LoadAndProcessData
    \/ ShowSuccess
    \/ ShowResults

SpecApp == InitApp /\ [][NextApp]_vars

---------------------------------------------------------------------------
(* Properties of the amount parser, checked under SpecParse.               *)

\* C1: clean_monetary_value never raises: a null, "", a lone "-" and every
\* string that is not a number after cleaning return 0.0.
C1_NeverRaises ==
    call = "clean_monetary_value" =>
        /\ ret.k = "return"
        /\ (IsNa(arg) \/ arg \in {Str(""), Str("-")}) => ret.v = Zero
        /\ (arg.t = "str" /\ PyFloat(CleanChars(arg.s)).k = "raise") => ret.v = Zero

\* digits in groups of three separated by ".", the first group of one to
\* three digits
RECURSIVE IsGrouped(_)
IsGrouped(s) ==
    LET p == IndexOf(s, ".")
    IN  IF p = 0 THEN Len(s) \in 1..3 /\ AllDigits(s)
        ELSE /\ p \in 2..4
             /\ AllDigits(SubSeq(s, 1, p - 1))
             /\ Len(From(s, p)) >= 3
             /\ AllDigits(SubSeq(s, p + 1, p + 3))
             /\ (Len(s) = p + 3 \/ (Char(s, p + 4) = "." /\ IsGrouped(From(s, p))))

\* an amount in the locale format: grouped digits, "," and the decimals
IsLocaleAmount(s) ==
    LET c == IndexOf(s, ",")
    IN  /\ c > 1
        /\ IsGrouped(SubSeq(s, 1, c - 1))
        /\ Len(s) > c
        /\ AllDigits(From(s, c))

\* the number a locale amount denotes: "." dropped, "," the decimal point
LocaleValue(s) ==
    LET c == IndexOf(s, ",")
    IN  Fin(DigitsVal(Replace(SubSeq(s, 1, c - 1), ".", "") \o From(s, c)), Len(s) - c)

\* C2: for an amount in the locale format clean_monetary_value drops the "."
\* separators and reads "," as the decimal point: "1.234,56" gives 1234.56.
C2_LocaleAmount ==
    (call = "clean_monetary_value" /\ arg.t = "str" /\ IsLocaleAmount(arg.s)) =>
        ret = Return(LocaleValue(arg.s))

---------------------------------------------------------------------------
(* Properties of the classifiers, checked under SpecClassify.              *)

Min(S) == CHOOSE x \in S : \A y \in S : x <= y

\* C3: an AND-rule matches only when both keywords occur: "Pix Recebido" only
\* with PIX and RECEBIDO, "Pix Enviado" only with PIX and ENVIADO, "Pagamento
\* Cartão Crédito" only with PAGAMENTO and CARTAO CREDITO.
C3_AndRules ==
    (call = "categorize_operation" /\ arg.t = "str") =>
        LET U == Upper(arg.s)
        IN  /\ ret.v.s = "Pix Recebido" => Contains(U, "PIX") /\ Contains(U, "RECEBIDO")
            /\ ret.v.s = "Pix Enviado" => Contains(U, "PIX") /\ Contains(U, "ENVIADO")
            /\ ret.v.s = "Pagamento Cartão Crédito" =>
                   Contains(U, "PAGAMENTO") /\ Contains(U, "CARTAO CREDITO")

\* the rules of category_rules whose test the upper-cased description passes
MatchingRules(U) ==
    {i \in DOMAIN category_rules : RuleMatches(category_rules[i].keywords, U)}

MatchingCategories(U) ==
    {i \in DOMAIN categories : AnyKeyword(categories[i].keywords, U)}

EstablishmentCategories ==
    {"Transporte", "Alimentação", "Compras/Varejo", "Serviços/Utilities", "Habitação",
     "Financeiro", "Saúde", "Pessoas Físicas", "Renda/Trabalho", "Educação/Serviços",
     "Entretenimento", "Tecnologia", "Outros"}

\* C5: categorize_establishment returns one value of its fixed set: the first
\* category in table order with a keyword in the upper-cased description (so
\* "MINI EXTRA" never selects Compras/Varejo), "Outros" when none matches,
\* "Não Informado" for null.
C5_FirstCategoryWins ==
    call = "categorize_establishment" =>
        IF IsNa(arg) THEN ret = Return(Str("Não Informado"))
        ELSE LET U == Upper(arg.s)
                 M == MatchingCategories(U)
             IN  /\ ret.k = "return"
                 /\ ret.v.t = "str"
                 /\ ret.v.s \in EstablishmentCategories
                 /\ IF M = {} THEN ret.v.s = "Outros"
                    ELSE ret.v.s = categories[Min(M)].category
                 /\ Contains(U, "MINI EXTRA") => ret.v.s # "Compras/Varejo"

\* a description holding "MINI EXTRA", classified by the earlier keyword "EXTRA"
C5_Witness ==
    /\ call = "categorize_establishment"
    /\ arg.t = "str"
    /\ Contains(Upper(arg.s), "MINI EXTRA")
    /\ ret = Return(Str("Alimentação"))

\* the token of a description of the form "PIX RECEBIDO <name>" or
\* "PIX ENVIADO <name>", "" for any other description
PixToken(s) ==
    IF StartsWith(s, "PIX RECEBIDO ") THEN "PIX RECEBIDO"
    ELSE IF StartsWith(s, "PIX ENVIADO ") THEN "PIX ENVIADO"
    ELSE ""

\* C6: for "PIX RECEBIDO <name>" or "PIX ENVIADO <name>"
\* extract_establishment_name returns the whole text after the token,
\* trimmed, also when <name> has several words.
C6_WholeName ==
    (/\ call = "extract_establishment_name"
     /\ arg.t = "str"
     /\ PixToken(arg.s) # ""
     /\ Strip(From(arg.s, Len(PixToken(arg.s)))) # "") =>
        ret = Return(Str(Strip(From(arg.s, Len(PixToken(arg.s))))))

---------------------------------------------------------------------------
(* Properties of the normaliser, checked under SpecNormalize.              *)

\* the rows of the argument as df_clean holds them before the dropna
Processed(df) == [i \in DOMAIN df.rows |-> ProcessRow(df.rows[i])]

\* whether the date of an input row parses in the format dd/mm/YYYY
DateParses(row) == ~IsNa(to_datetime(row.Data))

\* the rows of a sequence of processed rows that fall on day n
OnDay(rows, n) == SelectSeq(rows, LAMBDA r : ~IsNa(r.Data) /\ r.Data.n = n)

\* C7: the dataset process_dataframe returns is sorted by date ascending for
\* any input row order, and rows of equal date keep their input order.
C7_SortedByDate ==
    (call = "process_dataframe" /\ ret.k = "return") =>
        LET out == ret.v.rows
        IN  /\ \A i, j \in DOMAIN out : i < j => out[i].Data.n <= out[j].Data.n
            /\ \A i \in DOMAIN out :
                   OnDay(out, out[i].Data.n) =
                       OnDay(SelectSeq(Processed(arg), NotDropped), out[i].Data.n)

\* C8: process_dataframe raises EmptyDatasetError exactly when no row with a
\* parseable date remains; with such a row it returns, and it never returns
\* an empty dataset.
C8_EmptyDatasetError ==
    call = "process_dataframe" =>
        LET usable == \E i \in DOMAIN arg.rows : DateParses(arg.rows[i])
        IN  /\ ret = Raise("EmptyDatasetError") <=> ~usable
            /\ usable => ret.k = "return"
            /\ ret.k = "return" => ret.v.rows # <<>>

\* the columns of the input a processed row keeps
RawOf(r) ==
    [Data |-> r.Data, Descricao |-> r.Descricao, Entradas |-> r.Entradas,
     Saidas |-> r.Saidas, Saldo |-> r.Saldo]

\* C9: process_dataframe drops exactly the rows whose date does not parse:
\* no output row has a null date, and every input row with a parseable date
\* is in the output whatever its amount and description.
C9_DropsOnlyBadDates ==
    (call = "process_dataframe" /\ ret.k = "return") =>
        LET out == ret.v.rows
        IN  /\ \A j \in DOMAIN out : ~IsNa(out[j].Data)
            /\ Len(out) = Cardinality({i \in DOMAIN arg.rows : DateParses(arg.rows[i])})
            /\ \A i \in DOMAIN arg.rows :
                   DateParses(arg.rows[i]) =>
                       \E j \in DOMAIN out :
                           RawOf(out[j]) = [arg.rows[i] EXCEPT !.Data = to_datetime(@)]

\* C10: in every row of the normalised dataset Valor is a finite number, the
\* parsed inflow plus the parsed outflow, with Is_Entrada <=> Valor > 0 and
\* Is_Saida <=> Valor < 0: never both, and neither exactly when Valor = 0.
C10_AmountAndFlags ==
    (call = "process_dataframe" /\ ret.k = "return") =>
        \A j \in DOMAIN ret.v.rows :
            LET r == ret.v.rows[j]
            IN  /\ IsFinite(r.Valor)
                /\ r.Valor = FAdd(clean_monetary_value(r.Entradas).v,
                                  clean_monetary_value(r.Saidas).v)
                /\ r.Is_Entrada <=> FPos(r.Valor)
                /\ r.Is_Saida <=> FNegative(r.Valor)
                /\ ~(r.Is_Entrada /\ r.Is_Saida)
                /\ (~r.Is_Entrada /\ ~r.Is_Saida) <=> r.Valor = Zero

---------------------------------------------------------------------------
(* Properties of calculate_indicators, checked under SpecAnalyze.          *)

\* the indicators a call of calculate_indicators returned
Indicators == ret.v.items

\* the magnitudes of the outflow rows of a frame, the greatest first
OutflowMagnitudes(df) ==
    SortDesc([i \in DOMAIN SaidasOf(df) |-> FAbs(SaidasOf(df)[i].Valor)])

\* the share of the total outflow that x is, in percent
ShareOfOutflow(x, df) ==
    FMul(FDiv(x, FSum(OutflowMagnitudes(df))), FromInt(100))

\* the establishments with an outflow row
OutflowEstablishments(df) == Unique(Column(SaidasOf(df), "Estabelecimento"))

\* C11: with at least 5 outflow rows concentracao_top5_gastos is the combined
\* magnitude of the 5 outflow rows of greatest |amount| over the total outflow,
\* times 100; with at least 3 establishments with outflows
\* concentracao_top3_estabelecimentos is the combined outflow of the 3
\* establishments of greatest aggregate outflow over the total outflow, times
\* 100.
C11_ConcentrationRatios ==
    call = "calculate_indicators" =>
        /\ Len(SaidasOf(arg)) >= 5 =>
               FEq(Indicators.concentracao_top5_gastos,
                   ShareOfOutflow(FSum(Take(OutflowMagnitudes(arg), 5)), arg))
        /\ Cardinality(OutflowEstablishments(arg)) >= 3 =>
               FEq(Indicators.concentracao_top3_estabelecimentos,
                   ShareOfOutflow(Top3Estabelecimentos(SaidasOf(arg)), arg))

\* whether a float lies in the closed interval from lo to hi
InRange(x, lo, hi) == FLessEq(FromInt(lo), x) /\ FLessEq(x, FromInt(hi))

\* C12: for every dataset both concentration ratios lie in [0, 100]; the top-5
\* ratio is exactly 0 with fewer than 5 outflow rows and the top-3
\* establishment ratio is exactly 0 with fewer than 3 establishments with
\* outflows.
C12_RatiosInRange ==
    call = "calculate_indicators" =>
        /\ InRange(Indicators.concentracao_top5_gastos, 0, 100)
        /\ InRange(Indicators.concentracao_top3_estabelecimentos, 0, 100)
        /\ Len(SaidasOf(arg)) < 5 => Indicators.concentracao_top5_gastos = Zero
        /\ Cardinality(OutflowEstablishments(arg)) < 3 =>
               Indicators.concentracao_top3_estabelecimentos = Zero

\* whether an indicator is defined: a finite number, or a date that is not NaT
IsDefined(v) == IF v.t = "float" THEN v.c \in {"fin", "rat", "sqrt"} ELSE v.t = "date"

\* C13: calculate_indicators never raises and returns 0 for every ratio or
\* average whose denominator is zero: the savings rate with no inflow, the
\* inflow/outflow ratio with no outflow, the ticket averages with no row of
\* that sign, the daily averages and every average of a view with no row, for
\* which every indicator is a defined number.
C13_ZeroDenominators ==
    call = "calculate_indicators" =>
        /\ ret.k = "return"
        /\ Indicators.total_entradas = Zero => Indicators.taxa_poupanca = Zero
        /\ Indicators.total_saidas = Zero => Indicators.razao_entrada_saida = Zero
        /\ SaidasOf(arg) = <<>> => Indicators.ticket_medio_gasto = Zero
        /\ EntradasOf(arg) = <<>> => Indicators.ticket_medio_entrada = Zero
        /\ arg.rows = <<>> =>
               /\ Indicators.gasto_medio_diario = Zero
               /\ Indicators.entrada_media_diaria = Zero
               /\ Indicators.transacoes_por_dia = Zero
               /\ Indicators.ticket_medio_geral = Zero
               /\ \A key \in DOMAIN Indicators : IsDefined(Indicators[key])

\* C14: total_saidas >= 0 and total_entradas >= 0, saldo_liquido is exactly
\* total_entradas - total_saidas, and it equals the sum of Valor over all
\* rows of the dataset (rows of amount zero add to neither total).
C14_NetBalance ==
    call = "calculate_indicators" =>
        /\ FLessEq(Zero, Indicators.total_saidas)
        /\ FLessEq(Zero, Indicators.total_entradas)
        /\ FEq(Indicators.saldo_liquido,
               FSub(Indicators.total_entradas, Indicators.total_saidas))
        /\ FEq(Indicators.saldo_liquido, FSum(Column(arg.rows, "Valor")))

\* C15: the sum of Valor_Total over the rows of
\* get_category_analysis(df)['gastos'] equals total_saidas of
\* calculate_indicators(df): every outflow row is counted in exactly one
\* establishment category and no inflow or zero row is counted.
C15_CategoryTotals ==
    call = "get_category_analysis" =>
        /\ FEq(FSum(Column(ret.v.items.gastos.rows, "Valor_Total")),
               calculate_indicators(arg).v.items.total_saidas)
        /\ FSum(Column(ret.v.items.gastos.rows, "Qtd_Transacoes")) =
               FromInt(Len(SaidasOf(arg)))

\* the day numbers of the rows of a frame
ActiveDays(df) == {df.rows[i].Data.n : i \in DOMAIN df.rows}

\* the day numbers from the first to the last date of a frame with no row on
\* them
SilentDays(df) ==
    {n \in DateMin(df.rows).n .. DateMax(df.rows).n : n \notin ActiveDays(df)}

\* the entry 'dias_sem_movimento' a call of detect_anomalies returned
Silent == ret.v.items.dias_sem_movimento.items

\* C16: for a non-empty dataset the number of silent days detect_anomalies
\* reports plus dias_com_movimentacao is dias_periodo, (max date - min date)
\* in days + 1; the list holds exactly the dates of the inclusive range with
\* no transaction, each once, and never the first or last date of the period.
C16_SilentDays ==
    (call = "detect_anomalies" /\ arg.rows # <<>>) =>
        /\ ret.k = "return"
        /\ LET ind == calculate_indicators(arg).v.items
               dias == Silent.dias.items
           IN  /\ FAdd(Silent.quantidade, ind.dias_com_movimentacao) = ind.dias_periodo
               /\ ind.dias_periodo = FromInt(DateMax(arg.rows).n - DateMin(arg.rows).n + 1)
               /\ Silent.quantidade = FromInt(Len(dias))
               /\ {dias[i].n : i \in DOMAIN dias} = SilentDays(arg)
               /\ Len(dias) = Cardinality(SilentDays(arg))
               /\ \A i \in DOMAIN dias :
                      /\ dias[i] = Date(dias[i].y, dias[i].m, dias[i].d)
                      /\ dias[i] # DateMin(arg.rows)
                      /\ dias[i] # DateMax(arg.rows)

\* a dataset whose dates share a day and leave days of the period without a
\* row, analysed
C16_Witness ==
    /\ call = "detect_anomalies"
    /\ Cardinality(ActiveDays(arg)) < Len(arg.rows)
    /\ Cardinality(SilentDays(arg)) >= 2
    /\ Silent.quantidade = FromInt(Cardinality(SilentDays(arg)))

---------------------------------------------------------------------------
(* Properties of a session, checked under SpecSession.                     *)

\* what a method returns or raises for a dataset, from the dataset alone
ResultOf(method, df) ==
    CASE method = "process_dataframe" -> process_dataframe(df)
      [] method = "calculate_indicators" -> calculate_indicators(df)
      [] method = "get_category_analysis" -> get_category_analysis(df)
      [] method = "detect_anomalies" -> detect_anomalies(df)

\* C17: no mutable state is shared between calls: process_dataframe,
\* calculate_indicators, the aggregation views and detect_anomalies leave the
\* dataset they are given unchanged, retain nothing on the processor object,
\* and return a result that depends on the dataset only, whatever calls came
\* before.
C17_NoSharedState ==
    [][call' # "" =>
          /\ arg' = arg
          /\ df_processed' = df_processed
          /\ analysis_results' = analysis_results
          /\ ret' = ResultOf(call', arg)]_vars

\* C18: for the three raw rows of the scenario (01/01/2023 inflow 6800,
\* 02/01/2023 "Uber Trip" -25, 05/01/2023 "Uber Trip" -30) the pipeline gives
\* a normalised dataset of 3 rows, total_entradas 6800, total_saidas 55,
\* saldo_liquido 6745, exactly 2 rows of category Transporte and exactly 2
\* silent days, 3 and 4 January.
C18_Scenario ==
    /\ (call = "process_dataframe" /\ arg = Scenario) =>
           /\ ret.k = "return"
           /\ Len(ret.v.rows) = 3
           /\ Len(Group(ret.v.rows, "Categoria_Estabelecimento", "Transporte")) = 2
    /\ (call = "calculate_indicators" /\ arg = ScenarioDataset) =>
           /\ Indicators.total_entradas = FromInt(6800)
           /\ Indicators.total_saidas = FromInt(55)
           /\ Indicators.saldo_liquido = FromInt(6745)
    /\ (call = "get_category_analysis" /\ arg = ScenarioDataset) =>
           \E i \in DOMAIN ret.v.items.gastos.rows :
               /\ ret.v.items.gastos.rows[i].Categoria_Estabelecimento = Str("Transporte")
               /\ ret.v.items.gastos.rows[i].Qtd_Transacoes = FromInt(2)
    /\ (call = "detect_anomalies" /\ arg = ScenarioDataset) =>
           /\ ret.k = "return"
           /\ Silent.quantidade = FromInt(2)
           /\ Silent.dias = List(<<Date(2023, 1, 3), Date(2023, 1, 4)>>)

\* the pipeline run on the scenario: process_dataframe has returned its
\* dataset, calculate_indicators has been called on it, and detect_anomalies
\* reports the two silent days
C18_Witness ==
    /\ call = "detect_anomalies"
    /\ arg = ScenarioDataset
    /\ df_processed = ScenarioDataset
    /\ analysis_results = calculate_indicators(ScenarioDataset).v
    /\ analysis_results.items.saldo_liquido = FromInt(6745)
    /\ Silent.quantidade = FromInt(2)

---------------------------------------------------------------------------
(* A further property of the amount parser, checked under SpecParse.       *)

\* C19: clean_monetary_value keeps a leading "-" as the sign: for every
\* string s that parses to a value v >= 0, the string "-" followed by s (with
\* or without currency symbol, quotes and spaces, as "-R$ 50,00") parses to
\* -v; a lone "-" gives 0.0.
C19_LeadingMinus ==
    (call = "clean_monetary_value" /\ arg.t = "str" /\ StartsWith(arg.s, "-")) =>
        /\ LET r == clean_monetary_value(Str(From(arg.s, 1)))
           IN  (r.k = "return" /\ FLessEq(Zero, r.v)) => ret = Return(FNeg(r.v))
        /\ arg.s = "-" => ret = Return(Zero)

---------------------------------------------------------------------------
(* A further property of the name extraction, checked under SpecClassify.  *)

\* the patterns whose key token occurs in the upper-cased description
KeyedPatterns(d) == {i \in DOMAIN patterns : Contains(Upper(d), patterns[i].key)}

\* the keyed patterns whose regex finds a match in the description
MatchingPatterns(d) == {i \in KeyedPatterns(d) : SearchFrom(d, 1, patterns[i]).ok}

\* the words after the first three tokens, joined by single spaces, for a
\* description of four tokens or more; the trimmed description otherwise
AfterPreamble(d) ==
    LET words == Split(d)
    IN  IF Len(words) >= 4 THEN Join(SubSeq(words, 4, Len(words)), " ")
        ELSE Strip(d)

\* the capture group of pattern i, trimmed
CaptureOf(d, i) == Strip(SearchFrom(d, 1, patterns[i]).g)

\* C20, as stated: extract_establishment_name uses the fallback only when no
\* pattern key token (PIX, CARTAO, PAGAMENTO, TED, LIQUIDO) occurs in the
\* upper-cased description, so a description with a key token yields the
\* capture of a matching pattern; the fallback returns the words after the
\* first three tokens joined by single spaces, or the trimmed description
\* when it has fewer than four tokens; a null description returns
\* 'Não Informado'.
C20_FallbackOnlyWithoutKey ==
    call = "extract_establishment_name" =>
        IF IsNa(arg) THEN ret = Return(Str("Não Informado"))
        ELSE LET d == Strip(arg.s)
             IN  IF KeyedPatterns(d) = {}
                 THEN ret = Return(Str(AfterPreamble(d)))
                 ELSE \E i \in MatchingPatterns(d) : ret = Return(Str(CaptureOf(d, i)))

\* C20, amended: extract_establishment_name uses the fallback exactly when no
\* pattern whose key token occurs in the upper-cased description matches it:
\* when no key token occurs, and also when a key token occurs but its regex
\* does not match (as in "TED Recebido - Joao Oliveira"). Otherwise it returns
\* the capture of the first such pattern. The fallback returns the words
\* after the first three tokens joined by single spaces, or the trimmed
\* description when it has fewer than four tokens; a null description returns
\* 'Não Informado'.
C20_FallbackWithoutMatch ==
    call = "extract_establishment_name" =>
        IF IsNa(arg) THEN ret = Return(Str("Não Informado"))
        ELSE LET d == Strip(arg.s)
                 hits == MatchingPatterns(d)
             IN  IF hits = {}
                 THEN ret = Return(Str(AfterPreamble(d)))
                 ELSE LET i == CHOOSE x \in hits : \A y \in hits : x <= y
                      IN  ret = Return(Str(CaptureOf(d, i)))

\* a key token occurs, its regex does not match, and the fallback skips the
\* three-token preamble
C20_Witness ==
    /\ call = "extract_establishment_name"
    /\ arg = Str("TED Recebido - Joao Oliveira")
    /\ KeyedPatterns(arg.s) # {} /\ MatchingPatterns(arg.s) = {}
    /\ ret = Return(Str("Joao Oliveira"))

---------------------------------------------------------------------------
(* Properties of the reports, checked under SpecReport.                    *)

\* the titles of the items of a bucket of recommendations
Titles(bucket) == {bucket.items[i].titulo.s : i \in DOMAIN bucket.items}

\* C21: generate_recommendations applies its threshold rules independently:
\* the urgent bucket holds 'Saldo Negativo Crítico' iff the savings rate is
\* below 0 and 'Gastos Altamente Concentrados' iff the top-5 concentration is
\* above 70; the important bucket holds 'Taxa de Poupança Baixa' iff
\* 0 <= savings rate < 10 and 'Ticket Médio Alto' iff the average outflow
\* ticket is above 200; the suggestions hold 'Boa Diversificação' iff there
\* are more than 20 distinct establishments.  The negative-balance and the
\* low-savings items never appear together.
C21_ThresholdRules ==
    call = "generate_recommendations" =>
        LET ind == arg.indicators.items
            urgentes == Titles(ret.v.items.urgentes)
            importantes == Titles(ret.v.items.importantes)
            sugestoes == Titles(ret.v.items.sugestoes)
        IN  /\ "Saldo Negativo Crítico" \in urgentes <=> FLess(ind.taxa_poupanca, Zero)
            /\ "Gastos Altamente Concentrados" \in urgentes
                   <=> FLess(FromInt(70), ind.concentracao_top5_gastos)
            /\ "Taxa de Poupança Baixa" \in importantes
                   <=> (FLessEq(Zero, ind.taxa_poupanca)
                        /\ FLess(ind.taxa_poupanca, FromInt(10)))
            /\ "Ticket Médio Alto" \in importantes
                   <=> FLess(FromInt(200), ind.ticket_medio_gasto)
            /\ "Boa Diversificação" \in sugestoes
                   <=> FLess(FromInt(20), ind.estabelecimentos_unicos)
            /\ ~("Saldo Negativo Crítico" \in urgentes
                 /\ "Taxa de Poupança Baixa" \in importantes)
            /\ urgentes \subseteq {"Saldo Negativo Crítico", "Gastos Altamente Concentrados"}
            /\ sugestoes \subseteq {"Boa Diversificação"}

\* a call with every indicator beyond its threshold: both urgent items, the
\* high ticket and the diversification item, and no low-savings item
C21_Witness ==
    /\ call = "generate_recommendations"
    /\ FLess(arg.indicators.items.taxa_poupanca, Zero)
    /\ Titles(ret.v.items.urgentes)
           = {"Saldo Negativo Crítico", "Gastos Altamente Concentrados"}
    /\ "Ticket Médio Alto" \in Titles(ret.v.items.importantes)
    /\ "Taxa de Poupança Baixa" \notin Titles(ret.v.items.importantes)
    /\ Titles(ret.v.items.sugestoes) = {"Boa Diversificação"}

\* the outflow rows of an establishment, and the days they fall on
OutflowsAt(df, e) == SelectSeq(df.rows, LAMBDA r : FNegative(r.Valor) /\ r.Estabelecimento = e)
OutflowDays(df, e) == {OutflowsAt(df, e)[i].Data : i \in DOMAIN OutflowsAt(df, e)}

\* the establishments whose outflows fall on two distinct days or more
RecurringEstablishments(df) ==
    {e \in Unique(Column(df.rows, "Estabelecimento")) : Cardinality(OutflowDays(df, e)) >= 2}

\* the total the views show for an establishment: the absolute sum of its
\* outflows, to two decimals
OutflowTotal(df, e) == FAbs(FRound(FSum(Column(OutflowsAt(df, e), "Valor")), 2))

\* C24: the view 'recorrentes' of get_establishment_analysis holds exactly
\* the establishments whose outflows fall on at least 2 distinct days
\* (several outflows on one day do not qualify), one row each, with
\* Gasto_Medio_Por_Dia = Valor_Total / Dias_Ativos, by Valor_Total descending;
\* generate_recommendations adds 'Gasto Recorrente Principal' iff that view
\* is not empty, and the item names its first, largest-total establishment.
C24_RecurringExpenses ==
    /\ call = "get_establishment_analysis" =>
           LET view == ret.v.items.recorrentes.rows
           IN  /\ Unique(Column(view, "Estabelecimento")) = RecurringEstablishments(arg)
               /\ Len(view) = Cardinality(RecurringEstablishments(arg))
               /\ \A i \in DOMAIN view :
                      /\ view[i].Valor_Total = OutflowTotal(arg, view[i].Estabelecimento)
                      /\ view[i].Dias_Ativos
                             = FromInt(Cardinality(OutflowDays(arg, view[i].Estabelecimento)))
                      /\ view[i].Gasto_Medio_Por_Dia
                             = FDiv(view[i].Valor_Total, view[i].Dias_Ativos)
               /\ \A i, j \in DOMAIN view :
                      i < j => ~FLess(view[i].Valor_Total, view[j].Valor_Total)
    /\ call = "generate_recommendations" =>
           LET named == {it.descricao.values[1] :
                            it \in {x \in Unique(ret.v.items.importantes.items) :
                                       x.titulo = Str("Gasto Recorrente Principal")}}
           IN  /\ named # {} <=> RecurringEstablishments(arg.df) # {}
               /\ \A e \in named :
                      /\ e \in RecurringEstablishments(arg.df)
                      /\ \A f \in RecurringEstablishments(arg.df) :
                             ~FLess(OutflowTotal(arg.df, e), OutflowTotal(arg.df, f))
               /\ Cardinality(named) <= 1

\* a dataset with two recurring establishments, and one whose two outflows
\* fall on a single day and is not in the view
C24_Witness ==
    /\ call = "get_establishment_analysis"
    /\ Len(ret.v.items.recorrentes.rows) = 2
    /\ Cardinality(OutflowDays(arg, Str("Uber Viagem"))) = 1
    /\ Len(OutflowsAt(arg, Str("Uber Viagem"))) = 2

\* the outflow and inflow totals of a dataset
TotalOutflow(df) == FAbs(FSum(Column(SelectSeq(df.rows, LAMBDA r : FNegative(r.Valor)), "Valor")))
TotalInflow(df) == FSum(Column(SelectSeq(df.rows, LAMBDA r : FPos(r.Valor)), "Valor"))

\* C25: whenever the total outflow of a dataset exceeds its total inflow, a
\* dataset of outflows and no inflow included, generate_recommendations
\* called with the output of calculate_indicators puts 'Saldo Negativo
\* Crítico' in the urgent bucket.
C25_NegativeBalanceFlagged ==
    (/\ call = "generate_recommendations"
     /\ arg.indicators = calculate_indicators(arg.df).v
     /\ FLess(TotalInflow(arg.df), TotalOutflow(arg.df)))
        => "Saldo Negativo Crítico" \in Titles(ret.v.items.urgentes)

\* the days of a dataset that have an outflow
OutflowDates(df) == {df.rows[i].Data : i \in {j \in DOMAIN df.rows : FNegative(df.rows[j].Valor)}}

\* C22: the trend view of get_temporal_analysis is present iff at least 3
\* days have an outflow; of the n daily outflow totals in chronological
\* order its first half is the mean of the first ceil(n/2) and its second
\* half the mean of the last floor(n/2); its direction is 'Crescente' iff
\* the percentage change of the second half over the first is above 0.
C22_TrendSplit ==
    call = "get_temporal_analysis" =>
        LET totals == GastosDiarios(arg)
            n == Len(totals)
            h == (n + 1) \div 2
            present == "tendencia_gastos" \in DOMAIN ret.v.items
        IN  /\ present <=> Cardinality(OutflowDates(arg)) >= 3
            /\ present =>
                   LET t == ret.v.items.tendencia_gastos.items
                       change == FMul(FDiv(FSub(t.segunda_metade, t.primeira_metade),
                                           t.primeira_metade), FromInt(100))
                   IN  /\ t.primeira_metade = FMean(SubSeq(totals, 1, h))
                       /\ t.segunda_metade = FMean(SubSeq(totals, h + 1, n))
                       /\ t.direcao = Str("Crescente") <=> FLess(Zero, change)

\* the outflow amounts of the category of a row
CategoryOutflows(df, row) ==
    Column(SelectSeq(df.rows, LAMBDA r :
               FNegative(r.Valor)
                   /\ r.Categoria_Estabelecimento = row.Categoria_Estabelecimento),
           "Valor")

\* |amount| > |mean| + 2 * std over the outflows of the category of the row,
\* for a category of two outflows or more: with d = |amount| - |mean| and ss
\* the sum of the squared deviations from the mean, d > 0 and
\* d * d * (n - 1) > 4 * ss
Outlier(df, row) ==
    LET g == CategoryOutflows(df, row)
        n == Len(g)
        mean == FMean(g)
        d == FSub(FAbs(row.Valor), FAbs(mean))
        ss == FSum([i \in DOMAIN g |-> FMul(FSub(g[i], mean), FSub(g[i], mean))])
    IN  /\ n >= 2
        /\ FLess(Zero, d)
        /\ FLess(FMul(FromInt(4), ss), FMul(FMul(d, d), FromInt(n - 1)))

\* C23: the per-category list of detect_anomalies holds, in the order of the
\* rows, exactly the outflow rows whose |amount| is above |mean| + 2 * std of
\* the outflow amounts of their establishment category; a category with
\* fewer than 2 outflows gives no entry, no inflow or zero row is listed, and
\* the single outflow of -5000 among nineteen outflows of about -50 is
\* listed.
C23_CategoryOutliers ==
    (call = "detect_anomalies" /\ ret.k = "return") =>
        LET flagged == ret.v.items.categoria.items
            expected == SelectSeq(arg.rows, LAMBDA r : FNegative(r.Valor) /\ Outlier(arg, r))
        IN  /\ Len(flagged) = Len(expected)
            /\ \A i \in DOMAIN flagged :
                   /\ flagged[i].items.data = expected[i].Data
                   /\ flagged[i].items.estabelecimento = expected[i].Estabelecimento
                   /\ flagged[i].items.valor = expected[i].Valor
                   /\ flagged[i].items.categoria = expected[i].Categoria_Estabelecimento
                   /\ FNegative(flagged[i].items.valor)
                   /\ Len(CategoryOutflows(arg, expected[i])) >= 2
            /\ arg = DatasetD =>
                   \E i \in DOMAIN flagged : flagged[i].items.valor = FromInt(-5000)

\* the dataset of twenty outflows of one category: only the outflow of
\* -5000 is listed
C23_Witness ==
    /\ call = "detect_anomalies"
    /\ arg = DatasetD
    /\ Len(arg.rows) = 20
    /\ Len(ret.v.items.categoria.items) = 1
    /\ ret.v.items.categoria.items[1].items.valor = FromInt(-5000)

---------------------------------------------------------------------------
(* Properties of the application, checked under SpecApp.                   *)

\* load_and_process_data was called and returned None
LoadFailed ==
    /\ call \in {"load_and_process_data", "st.success", "filter_data"}
    /\ ~(IsWorkbook(arg) /\ ~arg.opens)
    /\ df_processed = NoneV

\* C26: whenever load_and_process_data returns None, main has shown the
\* error and goes no further: it does not reach the success message, the
\* filters or the analysis with a None dataset, and it does not raise.
C26_StopsWhenLoadFails ==
    LoadFailed =>
        /\ \E i \in DOMAIN screen : screen[i].fn = "st.error"
        /\ call = "load_and_process_data"
        /\ ret.k # "raise"

=============================================================================
